---- MODULE Spec2Model ----
(***************************************************************************)
(* Full-text indexing and search of the paper manager: the page store     *)
(* (pdf_pages), the FTS5 index kept in step with it by triggers            *)
(* (pdf_pages_fts), the indexing commands (index_paper, index_all_papers), *)
(* the search command (search_full_text) and the commands that delete      *)
(* papers, folders and topics, run by concurrent command threads that      *)
(* share one mutex-guarded connection.                                     *)
(*                                                                         *)
(* Strings are sequences of one-character strings.                         *)
(***************************************************************************)
EXTENDS Integers, Sequences, FiniteSets, TLC

\* ------------------------------------------------------------------ bounds

\* Command threads that may run at the same time.
MaxThreads == 2
\* Papers ever created in one behaviour (ids are never reused, as with UUIDs).
MaxPapers == 2
\* Largest rowid pdf_pages may hand out (rowids grow as max + 1).
MaxRowid == 3
\* Papers in the small libraries a caller pages through.
MaxSweepPapers == 3
\* The small limits a caller pages with.
MaxSweepLimit == 2
\* index_all_papers commands that may run at the same time.
MaxBatches == 1
\* Readings of the wall clock (seconds) that differ.
MaxClock == 1
MaxQueryLen == 3
MaxCriteria == 2

\* ------------------------------------------------------- program constants

\* query.limit.unwrap_or(20)
DefaultLimit == 20
\* .min(100)
MaxLimit == 100
\* query.offset.unwrap_or(0)
DefaultOffset == 0
\* snippet(pdf_pages_fts, 0, '<mark>', '</mark>', '...', 32)
SnippetTokens == 32
\* index_paper: insert_pdf_page(&conn, &paper_id, 1, &text)
FirstPage == 1

\* Option<T>: None is the empty sequence and Some(x) the sequence of x alone.
None == <<>>
Some(x) == <<x>>

\* i32::min
min(a, b) == IF a <= b THEN a ELSE b

\* Option::unwrap_or
unwrap_or(opt, default) == IF opt = None THEN default ELSE opt[1]

\* ------------------------------------------------------------- characters

LowerChars == {"a", "b", "c"}
UpperChars == {"A", "B", "C"}
DigitChars == {"1"}
WhitespaceChars == {" "}

\* A tokenizer that keeps the case of letters.
ToLower_KeepsCase(c) == c

\* char::to_lowercase / unicode61 case folding
ToLower(c) ==
  CASE c = "A" -> "a"
    [] c = "B" -> "b"
    [] c = "C" -> "c"
    [] OTHER -> c

\* char::is_alphanumeric; also the token characters of unicode61
is_alphanumeric(c) == c \in LowerChars \cup UpperChars \cup DigitChars

is_whitespace(c) == c \in WhitespaceChars

Max(S) == CHOOSE x \in S : \A y \in S : y <= x

Min(S) == CHOOSE x \in S : \A y \in S : x <= y

RECURSIVE Concat(_)
\* The concatenation of a sequence of strings.
Concat(ss) == IF ss = <<>> THEN <<>> ELSE Head(ss) \o Concat(Tail(ss))

\* ------------------------------------------------- unicode61 tokenisation

\* Positions of s that start a token: a token character not preceded by one.
TokenStarts(s) ==
  {i \in 1..Len(s) : is_alphanumeric(s[i]) /\ (i = 1 \/ ~is_alphanumeric(s[i - 1]))}

\* Last position of the token that starts at i.
TokenEnd(s, i) ==
  Min({j \in i..Len(s) : j = Len(s) \/ ~is_alphanumeric(s[j + 1])})

RECURSIVE SpansFrom(_, _)
SpansFrom(s, i) ==
  LET later == {j \in TokenStarts(s) : j >= i}
  IN IF later = {} THEN <<>>
     ELSE LET b == Min(later)
              e == TokenEnd(s, b)
          IN <<[b |-> b, e |-> e]>> \o SpansFrom(s, e + 1)

\* The tokens of s in order, as the places [b, e] they occupy in s.
TokenSpans(s) == SpansFrom(s, 1)

\* The tokens of s as the index stores them: case folded.
Tokenize(s) ==
  LET sp == TokenSpans(s)
  IN [k \in 1..Len(sp) |-> [i \in 1..(sp[k].e - sp[k].b + 1) |-> ToLower(s[sp[k].b + i - 1])]]

\* ------------------------------------------------------ query sanitisation

Quote == "\""

RECURSIVE WordsFrom(_, _)
WordsFrom(s, i) ==
  LET starts == {j \in i..Len(s) :
                   ~is_whitespace(s[j]) /\ (j = 1 \/ is_whitespace(s[j - 1]))}
  IN IF starts = {} THEN <<>>
     ELSE LET b == Min(starts)
              e == Min({j \in b..Len(s) : j = Len(s) \/ is_whitespace(s[j + 1])})
          IN <<SubSeq(s, b, e)>> \o WordsFrom(s, e + 1)

\* str::split_whitespace
split_whitespace(s) == WordsFrom(s, 1)

RECURSIVE Join(_, _)
\* join(sep)
Join(ss, sep) ==
  IF ss = <<>> THEN <<>>
  ELSE IF Len(ss) = 1 THEN Head(ss)
  ELSE Head(ss) \o sep \o Join(Tail(ss), sep)

\* A filter that lets every character through.
KeptByFilter_All(c) == TRUE

\* |c| c.is_alphanumeric() || c.is_whitespace() || *c == '-' || *c == '_'
KeptByFilter(c) == is_alphanumeric(c) \/ is_whitespace(c) \/ c = "-" \/ c = "_"

\* A sanitiser that quotes the words of the raw query as they are.
sanitize_fts_query_NoFilter(query) ==
  LET words == split_whitespace(query)
  IN Join([k \in 1..Len(words) |-> <<Quote>> \o words[k] \o <<Quote>>], <<" ">>)

\* Sanitize user input for FTS5 query
sanitize_fts_query(query) ==
  LET cleaned == SelectSeq(query, KeptByFilter)
      words == split_whitespace(cleaned)
  IN Join([k \in 1..Len(words) |-> <<Quote>> \o words[k] \o <<Quote>>], <<" ">>)

\* ------------------------------------------------------- the FTS5 engine

RECURSIVE QuotedFrom(_, _)
QuotedFrom(s, i) ==
  LET opens == {j \in i..Len(s) : s[j] = Quote}
  IN IF opens = {} THEN <<>>
     ELSE LET o == Min(opens)
              closes == {j \in (o + 1)..Len(s) : s[j] = Quote}
          IN IF closes = {} THEN <<>>
             ELSE <<SubSeq(s, o + 1, Min(closes) - 1)>> \o QuotedFrom(s, Min(closes) + 1)

\* The phrases of an FTS5 query made of quoted strings: each string is
\* tokenised by the table's tokenizer; a string without a token gives no
\* phrase (FTS5 drops it from the implicit AND).
Fts5Phrases(search_query) ==
  LET strs == QuotedFrom(search_query, 1)
      toks == [k \in 1..Len(strs) |-> Tokenize(strs[k])]
  IN SelectSeq(toks, LAMBDA ph : ph # <<>>)

\* Token positions of toks at which phrase ph starts.
PhraseInstances(toks, ph) ==
  {k \in 1..(Len(toks) - Len(ph) + 1) : \A i \in 1..Len(ph) : toks[k + i - 1] = ph[i]}

\* pdf_pages_fts MATCH ?: every phrase occurs (implicit AND); a query
\* without any phrase matches no row.
Matches(text, phrases) ==
  /\ phrases # <<>>
  /\ LET toks == Tokenize(text)
     IN \A k \in 1..Len(phrases) : PhraseInstances(toks, phrases[k]) # {}

\* The phrase instances of a text as token intervals [a, b].
Instances(text, phrases) ==
  LET toks == Tokenize(text)
  IN UNION {{[a |-> k, b |-> k + Len(phrases[p]) - 1] : k \in PhraseInstances(toks, phrases[p])} :
              p \in 1..Len(phrases)}

\* bm25(pdf_pages_fts): a cost, lower is better. Only its order is modelled:
\* more phrase instances cost less.
bm25(text, phrases) == 0 - Cardinality(Instances(text, phrases))

MarkOpen == <<"<", "m", "a", "r", "k", ">">>
MarkClose == <<"<", "/", "m", "a", "r", "k", ">">>
Ellipsis == <<".", ".", ".">>

\* snippet(pdf_pages_fts, 0, '<mark>', '</mark>', '...', 32): at most
\* SnippetTokens tokens of the stored text, chosen to hold as many phrase
\* instances as possible, each instance wrapped in the markers and "..."
\* where text was cut. The instances come from the index entry (indexed),
\* the text from the content row (content).
snippet(content, indexed, phrases) ==
  LET sp == TokenSpans(content)
      n == Len(sp)
      inst == {x \in Instances(indexed, phrases) : x.b <= n}
      Inside(s) == {x \in inst : s <= x.a /\ x.b <= s + SnippetTokens - 1}
      starts == 1..(n - SnippetTokens + 1)
      first == IF n <= SnippetTokens THEN 1
               ELSE Min({s \in starts : \A u \in starts :
                           Cardinality(Inside(u)) <= Cardinality(Inside(s))})
      last == IF n <= SnippetTokens THEN n ELSE first + SnippetTokens - 1
      shown == {x \in inst : first <= x.a /\ x.b <= last}
      Opens(k) == /\ \E x \in shown : x.a = k
                  /\ ~\E x \in shown : x.a < k /\ k <= x.b
      Closes(k) == /\ \E x \in shown : x.b = k
                   /\ ~\E x \in shown : x.a <= k /\ k < x.b
      from == IF n <= SnippetTokens THEN 1 ELSE sp[first].b
      to == IF n <= SnippetTokens THEN Len(content) ELSE sp[last].e
      Piece(i) ==
        (IF \E k \in first..last : sp[k].b = i /\ Opens(k) THEN MarkOpen ELSE <<>>)
        \o <<content[i]>>
        \o (IF \E k \in first..last : sp[k].e = i /\ Closes(k) THEN MarkClose ELSE <<>>)
  IN (IF first > 1 THEN Ellipsis ELSE <<>>)
     \o Concat([j \in 1..(to - from + 1) |-> Piece(from + j - 1)])
     \o (IF last < n THEN Ellipsis ELSE <<>>)

\* s holds sub as a contiguous part.
Contains(s, sub) ==
  \E i \in 1..(Len(s) - Len(sub) + 1) : SubSeq(s, i, i + Len(sub) - 1) = sub

\* --------------------------------------------------------------- inputs

Threads == 1..MaxThreads

\* Timestamps chrono::Utc::now() may give.
Times == 1..MaxClock

TextA == <<"A", "b", " ", "c", "-", "a">>
TextB == <<"b", "'", "a">>

\* What pdf_extract::extract_text may find in a file.
Texts == {TextA, TextB}

NotFoundMsg == "Not found: PDF not found"
ParseMsg == "Parse error: Failed to extract PDF text"
NoPdfMsg == "No PDF file attached"

\* CreatePaperInput: title, author and pdf_path as the caller gives them
\* (the n-th paper created is given the n-th title and author).
PaperInputs(n) ==
  { [title |-> <<"t", n>>, author |-> IF n % 2 = 1 THEN "a1" ELSE "", pdf_path |-> p] :
      p \in {"", "file.pdf"} }

DefaultTopic == 1
DefaultFolder == 1

\* The ids of the default folder and of a folder created by the user.
FolderIds == {DefaultFolder, DefaultFolder + 1}

\* ------------------------------------------------------------ the store

\* conn is the database behind the connection: a record of its tables.
\*   topics: set of ids; folders: id -> [topic_id]; papers: id -> row;
\*   pdf_pages: set of rows; pdf_pages_fts: set of index entries;
\*   smart_groups: the rows in rowid order.

\* The schema right after migrations::run on a new database.
EmptyDb ==
  [ topics |-> {DefaultTopic},
    folders |-> (DefaultFolder :> [topic_id |-> DefaultTopic]),
    papers |-> <<>>,
    pdf_pages |-> {},
    pdf_pages_fts |-> {},
    smart_groups |-> <<>> ]

\* The rowid SQLite gives the next row of pdf_pages: one more than the largest.
NewRowid(pages) == IF pages = {} THEN 1 ELSE Max({r.rowid : r \in pages}) + 1

FtsEntry(row) == [rowid |-> row.rowid, text_content |-> row.text_content]

\* CREATE TRIGGER pdf_pages_ai AFTER INSERT ON pdf_pages
pdf_pages_ai(fts, new) == fts \cup {FtsEntry(new)}

\* A schema without the delete trigger.
pdf_pages_ad_Missing(fts, old) == fts

\* CREATE TRIGGER pdf_pages_ad AFTER DELETE ON pdf_pages: the 'delete'
\* command of FTS5 with the old rowid and the old content.
pdf_pages_ad(fts, old) == fts \ {FtsEntry(old)}

RECURSIVE FireDeletes(_, _)
\* pdf_pages_ad fired once for each deleted row.
FireDeletes(fts, rows) ==
  IF rows = {} THEN fts
  ELSE LET r == CHOOSE x \in rows : TRUE
       IN FireDeletes(pdf_pages_ad(fts, r), rows \ {r})

\* DELETE of a set of pdf_pages rows, by a statement or by ON DELETE CASCADE:
\* the rows go and the delete trigger fires for each.
DeletePageRows(conn, rows) ==
  [conn EXCEPT !.pdf_pages = @ \ rows,
               !.pdf_pages_fts = FireDeletes(@, rows)]

\* Insert or replace a page's text content.  On a UNIQUE(paper_id,
\* page_number) conflict REPLACE removes the old row without firing the
\* delete trigger (recursive_triggers is off), then the insert trigger fires.
insert_pdf_page(conn, paper_id, page_number, text_content) ==
  LET conflicting == {r \in conn.pdf_pages :
                        r.paper_id = paper_id /\ r.page_number = page_number}
      new == [rowid |-> NewRowid(conn.pdf_pages), paper_id |-> paper_id,
              page_number |-> page_number, text_content |-> text_content]
  IN [conn EXCEPT !.pdf_pages = (@ \ conflicting) \cup {new},
                  !.pdf_pages_fts = pdf_pages_ai(@, new)]

\* Delete all pages for a paper (for re-indexing)
delete_pdf_pages(conn, paper_id) ==
  DeletePageRows(conn, {r \in conn.pdf_pages : r.paper_id = paper_id})

\* Mark paper as indexed: UPDATE papers ... WHERE id = ? (no row, no change).
mark_paper_indexed(conn, paper_id, now) ==
  IF paper_id \in DOMAIN conn.papers
  THEN [conn EXCEPT !.papers[paper_id].is_indexed = 1,
                    !.papers[paper_id].indexed_at = Some(now)]
  ELSE conn

RECURSIVE SortedSeq(_)
\* The elements of a set of integers in increasing order.
SortedSeq(S) == IF S = {} THEN <<>> ELSE <<Min(S)>> \o SortedSeq(S \ {Min(S)})

\* Get papers that haven't been indexed yet (in table order).
\* Check if a paper has been indexed: SELECT COALESCE(is_indexed, 0) FROM
\* papers WHERE id = ?, with unwrap_or(0) for an id of no row.
get_paper_index_status(conn, paper_id) ==
  LET is_indexed == unwrap_or(IF paper_id \in DOMAIN conn.papers
                              THEN Some(conn.papers[paper_id].is_indexed)
                              ELSE None, 0)
  IN is_indexed = 1

get_unindexed_papers_AnyPath(conn) ==
  SortedSeq({id \in DOMAIN conn.papers : conn.papers[id].is_indexed = 0})

get_unindexed_papers(conn) ==
  SortedSeq({id \in DOMAIN conn.papers :
               conn.papers[id].is_indexed = 0 /\ conn.papers[id].pdf_path # ""})

\* A pdf_pages.paper_id without ON DELETE CASCADE: the papers rows go, their
\* pdf_pages rows stay.
DeletePapers_NoCascade(conn, ids) ==
  [conn EXCEPT !.papers = [id \in (DOMAIN @) \ ids |-> @[id]]]

\* The papers rows removed with a set of folders (ON DELETE CASCADE), and
\* with them their pdf_pages rows.
DeletePapers(conn, ids) ==
  LET c == DeletePageRows(conn, {r \in conn.pdf_pages : r.paper_id \in ids})
  IN [c EXCEPT !.papers = [id \in (DOMAIN @) \ ids |-> @[id]]]

DeleteFolders(conn, fids) ==
  LET c == DeletePapers(conn, {id \in DOMAIN conn.papers : conn.papers[id].folder_id \in fids})
  IN [c EXCEPT !.folders = [f \in (DOMAIN @) \ fids |-> @[f]]]

\* db::papers::delete_paper (the caller has checked that the paper exists)
delete_paper(conn, paper_id) == DeletePapers(conn, {paper_id})

\* commands::papers::batch_delete_papers: get_paper(..)? and delete_paper(..)?
\* for each id in turn; the first unknown id ends the loop with NotFound
\* and the papers deleted before it stay deleted.
RECURSIVE batch_delete_papers(_, _)
batch_delete_papers(conn, paper_ids) ==
  IF paper_ids = <<>> THEN conn
  ELSE IF Head(paper_ids) \in DOMAIN conn.papers
       THEN batch_delete_papers(delete_paper(conn, Head(paper_ids)), Tail(paper_ids))
       ELSE conn

\* db::folders::delete_folder
delete_folder(conn, folder_id) == DeleteFolders(conn, {folder_id})

\* db::topics::delete_topic
delete_topic(conn, topic_id) ==
  LET c == DeleteFolders(conn, {f \in DOMAIN conn.folders : conn.folders[f].topic_id = topic_id})
  IN [c EXCEPT !.topics = @ \ {topic_id}]

\* db::papers::create_paper with the fresh id
create_paper(conn, id, folder_id, input) ==
  [conn EXCEPT !.papers = @ @@ (id :>
     [folder_id |-> folder_id, title |-> input.title, author |-> input.author,
      pdf_path |-> input.pdf_path, is_indexed |-> 0, indexed_at |-> None])]

\* db::papers::update_paper: input.pdf_path.unwrap_or(paper.pdf_path), and so
\* for folder_id; is_indexed and indexed_at are not among the columns set.
update_paper_ResetsIndexed(conn, paper_id, input) ==
  [conn EXCEPT !.papers[paper_id].pdf_path = unwrap_or(input.pdf_path, @),
               !.papers[paper_id].folder_id = unwrap_or(input.folder_id, @),
               !.papers[paper_id].is_indexed = IF input.pdf_path = None THEN @ ELSE 0]

update_paper(conn, paper_id, input) ==
  [conn EXCEPT !.papers[paper_id].pdf_path = unwrap_or(input.pdf_path, @),
               !.papers[paper_id].folder_id = unwrap_or(input.folder_id, @)]

\* db::folders::create_folder with the fresh id
create_folder(conn, id, topic_id) ==
  [conn EXCEPT !.folders = @ @@ (id :> [topic_id |-> topic_id])]

\* ------------------------------------------------------------ the search

\* FROM pdf_pages_fts JOIN pdf_pages pp ON pdf_pages_fts.rowid = pp.rowid
\* JOIN papers p ON pp.paper_id = p.id WHERE pdf_pages_fts MATCH ?
JoinedMatches(conn, phrases) ==
  UNION { { [e |-> e, pp |-> pp] :
              pp \in {r \in conn.pdf_pages :
                        r.rowid = e.rowid /\ r.paper_id \in DOMAIN conn.papers} } :
          e \in {x \in conn.pdf_pages_fts : Matches(x.text_content, phrases)} }

\* ORDER BY rank: the rows by increasing rank, rows of equal rank by rowid.
\* rk is the set of the rows with their ranks.
OrderRows(rk) ==
  LET before(x, y) == \/ x.rank < y.rank
                      \/ x.rank = y.rank /\ x.row.pp.rowid < y.row.pp.rowid
      place(x) == Cardinality({y \in rk : before(y, x)}) + 1
  IN [k \in 1..Cardinality(rk) |-> CHOOSE x \in rk : place(x) = k]

\* LIMIT ? OFFSET ?: a negative LIMIT is no limit, a negative OFFSET is 0.
LimitOffset(rows, limit, offset) ==
  LET off == IF offset < 0 THEN 0 ELSE offset
      upto == IF limit < 0 \/ off + limit > Len(rows) THEN Len(rows) ELSE off + limit
  IN SubSeq(rows, off + 1, upto)

\* One FullTextSearchResult of a joined row with its rank.
ResultRow(conn, x, phrases) ==
  [ paper_id |-> x.row.pp.paper_id,
    paper_title |-> conn.papers[x.row.pp.paper_id].title,
    paper_author |-> conn.papers[x.row.pp.paper_id].author,
    page_number |-> x.row.pp.page_number,
    snippet |-> snippet(x.row.pp.text_content, x.row.e.text_content, phrases),
    rank |-> x.rank ]

\* The result list of both search functions over the chosen rows.
SelectResults(conn, rows, phrases, limit, offset) ==
  LET rk == {[row |-> x, rank |-> bm25(x.e.text_content, phrases)] : x \in rows}
      page == LimitOffset(OrderRows(rk), limit, offset)
  IN [k \in 1..Len(page) |-> ResultRow(conn, page[k], phrases)]

\* A folder search whose count query leaves the folder predicate out.
search_with_folder_CountsAllFolders(conn, search_query, folder_id, limit, offset) ==
  LET phrases == Fts5Phrases(search_query)
      rows == {x \in JoinedMatches(conn, phrases) :
                 conn.papers[x.pp.paper_id].folder_id = folder_id}
  IN [ results |-> SelectResults(conn, rows, phrases, limit, offset),
       total |-> Cardinality(JoinedMatches(conn, phrases)) ]

\* A folder search without the predicate p.folder_id = ?.
search_with_folder_AnyFolder(conn, search_query, folder_id, limit, offset) ==
  LET phrases == Fts5Phrases(search_query)
      rows == JoinedMatches(conn, phrases)
  IN [ results |-> SelectResults(conn, rows, phrases, limit, offset),
       total |-> Cardinality(rows) ]

\* search_with_folder: both queries join papers and keep p.folder_id = ?.
search_with_folder(conn, search_query, folder_id, limit, offset) ==
  LET phrases == Fts5Phrases(search_query)
      rows == {x \in JoinedMatches(conn, phrases) :
                 conn.papers[x.pp.paper_id].folder_id = folder_id}
  IN [ results |-> SelectResults(conn, rows, phrases, limit, offset),
       \* SELECT COUNT(*) over the same joins and predicate
       total |-> Cardinality(rows) ]

search_all(conn, search_query, limit, offset) ==
  LET phrases == Fts5Phrases(search_query)
  IN [ results |-> SelectResults(conn, JoinedMatches(conn, phrases), phrases, limit, offset),
       \* SELECT COUNT(*) FROM pdf_pages_fts WHERE pdf_pages_fts MATCH ?
       total |-> Cardinality({e \in conn.pdf_pages_fts : Matches(e.text_content, phrases)}) ]

\* Full-text search with snippet extraction
search_pdf_content(conn, query) ==
  LET limit == min(unwrap_or(query.limit, DefaultLimit), MaxLimit)
      offset == unwrap_or(query.offset, DefaultOffset)
      search_query == sanitize_fts_query(query.query)
  IN IF search_query = <<>> THEN [total |-> 0, results |-> <<>>]
     ELSE IF query.folder_id # None
          THEN search_with_folder(conn, search_query, query.folder_id[1], limit, offset)
          ELSE search_all(conn, search_query, limit, offset)

\* search_pdf_content goes on to search_with_folder or search_all: the
\* sanitised query is not empty.
QueriesIndex(query) == sanitize_fts_query(query.query) # <<>>

\* ------------------------------------------------------------ smart groups

\* Seconds of a day (chrono::Duration::num_days counts whole days).
DaySeconds == 86400

\* The format create_paper writes and matches_criteria parses.
DateFormat == "%Y-%m-%d %H:%M:%S"

\* A timestamp text: the instant it names, in seconds, and how it is written.
Timestamp(fmt, secs) == [fmt |-> fmt, secs |-> secs]

\* A parse_from_str that reads a text of any format.
parse_from_str_AnyFormat(ts) == Some(ts.secs)

\* chrono::NaiveDateTime::parse_from_str(text, "%Y-%m-%d %H:%M:%S"): Ok with
\* the instant for a text in that format, Err for any other text.
parse_from_str(ts) == IF ts.fmt = DateFormat THEN Some(ts.secs) ELSE None

\* Duration::num_days: whole days, rounded towards zero.
num_days(diff) ==
  IF diff >= 0 THEN diff \div DaySeconds ELSE -((-diff) \div DaySeconds)

\* str::to_lowercase
to_lowercase(str) == [i \in 1..Len(str) |-> ToLower(str[i])]

\* chrono::Utc::now() at the time of the call.
GroupNow == 100 * DaySeconds

\* The smart-group columns of four papers rows; the columns create_paper
\* does not set have been set by update_paper.
GroupPapers ==
  [id \in 1..4 |->
    [ id |-> id, folder_id |-> DefaultFolder, title |-> <<"t", id>>,
      is_indexed |-> 0, indexed_at |-> None,
      year |-> CASE id = 1 -> 2023 [] id = 2 -> 2023 [] id = 3 -> 2020 [] OTHER -> 0,
      author |-> CASE id = 1 -> <<"A", "b">> [] id = 2 -> <<"b">> [] OTHER -> <<>>,
      keywords |-> CASE id = 1 -> <<"c">> [] id = 3 -> <<"a", "B">> [] OTHER -> <<>>,
      tags |-> CASE id = 1 -> << <<"A">> >> [] id = 3 -> << <<"a", "b">>, <<"c">> >> [] OTHER -> <<>>,
      is_read |-> id = 2,
      importance |-> CASE id = 1 -> 4 [] id = 3 -> 5 [] OTHER -> 3,
      is_qualitative |-> id \in {1, 3},
      is_quantitative |-> id \in {2, 3},
      publisher |-> CASE id = 2 -> <<"C">> [] OTHER -> <<>>,
      subject |-> CASE id = 1 -> <<"b">> [] OTHER -> <<>>,
      pdf_path |-> IF id \in {2, 3} THEN "file.pdf" ELSE "",
      created_at |-> Timestamp(DateFormat,
                       CASE id = 1 -> GroupNow - DaySeconds - 1
                         [] id = 2 -> GroupNow - 8 * DaySeconds + 1
                         [] id = 3 -> GroupNow - 40 * DaySeconds
                         [] OTHER -> GroupNow - 1),
      last_analyzed_at |-> CASE id = 2 -> Some(Timestamp(DateFormat, GroupNow - 2 * DaySeconds))
                             [] id = 3 -> Some(Timestamp("%Y-%m-%dT%H:%M:%S%.3fZ", GroupNow - 1))
                             [] id = 4 -> Some(Timestamp(DateFormat, GroupNow + 2 * DaySeconds))
                             [] OTHER -> None ] ]

\* The store with the papers rows ids of GroupPapers.
GroupLibrary(ids) == [EmptyDb EXCEPT !.papers = [id \in ids |-> GroupPapers[id]]]

\* The SmartGroupCriteria values of the callers.
GroupCriteria ==
  { [type |-> "byYear", year |-> 2023],
    [type |-> "byYear", year |-> 0],
    [type |-> "byYearRange", start |-> 2020, end |-> 2023],
    [type |-> "byYearRange", start |-> 2021, end |-> 2020],
    [type |-> "byAuthor", author |-> <<"a">>],
    [type |-> "byAuthor", author |-> <<"B">>],
    [type |-> "byKeyword", keyword |-> <<"A", "b">>],
    [type |-> "byTag", tag |-> <<"a">>],
    [type |-> "byTag", tag |-> <<"C">>],
    [type |-> "byReadStatus", is_read |-> TRUE],
    [type |-> "byReadStatus", is_read |-> FALSE],
    [type |-> "byImportance", importance |-> 4],
    [type |-> "byResearchType", qualitative |-> TRUE, quantitative |-> FALSE],
    [type |-> "recentlyAdded", days |-> 7],
    [type |-> "recentlyAnalyzed", days |-> 7],
    [type |-> "byPublisher", publisher |-> <<"c">>],
    [type |-> "bySubject", subject |-> <<"B">>],
    [type |-> "noPdf"],
    [type |-> "hasPdf"],
    [type |-> "unread"],
    [type |-> "favorites"] }

\* The match_mode values of the callers.
GroupModes == {None, Some("and"), Some("or"), Some("OR")}

\* A matches_criteria that takes ByImportance as a lower bound.
matches_criteria_ImportanceThreshold(paper, criteria, now) ==
  CASE criteria.type = "byYear" -> paper.year = criteria.year
    [] criteria.type = "byYearRange" ->
         paper.year >= criteria.start /\ paper.year <= criteria.end
    [] criteria.type = "byAuthor" ->
         Contains(to_lowercase(paper.author), to_lowercase(criteria.author))
    [] criteria.type = "byKeyword" ->
         Contains(to_lowercase(paper.keywords), to_lowercase(criteria.keyword))
    [] criteria.type = "byTag" ->
         \E k \in 1..Len(paper.tags) : to_lowercase(paper.tags[k]) = to_lowercase(criteria.tag)
    [] criteria.type = "byReadStatus" -> paper.is_read = criteria.is_read
    [] criteria.type = "byImportance" -> paper.importance >= criteria.importance
    [] criteria.type = "byResearchType" ->
         /\ paper.is_qualitative = criteria.qualitative
         /\ paper.is_quantitative = criteria.quantitative
    [] criteria.type = "recentlyAdded" ->
         IF parse_from_str(paper.created_at) # None
         THEN num_days(now - parse_from_str(paper.created_at)[1]) <= criteria.days
         ELSE FALSE
    [] criteria.type = "recentlyAnalyzed" ->
         IF paper.last_analyzed_at # None
         THEN IF parse_from_str(paper.last_analyzed_at[1]) # None
              THEN num_days(now - parse_from_str(paper.last_analyzed_at[1])[1]) <= criteria.days
              ELSE FALSE
         ELSE FALSE
    [] criteria.type = "byPublisher" ->
         Contains(to_lowercase(paper.publisher), to_lowercase(criteria.publisher))
    [] criteria.type = "bySubject" ->
         Contains(to_lowercase(paper.subject), to_lowercase(criteria.subject))
    [] criteria.type = "noPdf" -> paper.pdf_path = ""
    [] criteria.type = "hasPdf" -> paper.pdf_path # ""
    [] criteria.type = "unread" -> ~paper.is_read
    [] criteria.type = "favorites" -> paper.importance >= 4

\* Check if a paper matches a single criterion
matches_criteria(paper, criteria, now) ==
  CASE criteria.type = "byYear" -> paper.year = criteria.year
    [] criteria.type = "byYearRange" ->
         paper.year >= criteria.start /\ paper.year <= criteria.end
    [] criteria.type = "byAuthor" ->
         Contains(to_lowercase(paper.author), to_lowercase(criteria.author))
    [] criteria.type = "byKeyword" ->
         Contains(to_lowercase(paper.keywords), to_lowercase(criteria.keyword))
    [] criteria.type = "byTag" ->
         \E k \in 1..Len(paper.tags) : to_lowercase(paper.tags[k]) = to_lowercase(criteria.tag)
    [] criteria.type = "byReadStatus" -> paper.is_read = criteria.is_read
    [] criteria.type = "byImportance" -> paper.importance = criteria.importance
    [] criteria.type = "byResearchType" ->
         /\ paper.is_qualitative = criteria.qualitative
         /\ paper.is_quantitative = criteria.quantitative
    [] criteria.type = "recentlyAdded" ->
         IF parse_from_str(paper.created_at) # None
         THEN num_days(now - parse_from_str(paper.created_at)[1]) <= criteria.days
         ELSE FALSE
    [] criteria.type = "recentlyAnalyzed" ->
         IF paper.last_analyzed_at # None
         THEN IF parse_from_str(paper.last_analyzed_at[1]) # None
              THEN num_days(now - parse_from_str(paper.last_analyzed_at[1])[1]) <= criteria.days
              ELSE FALSE
         ELSE FALSE
    [] criteria.type = "byPublisher" ->
         Contains(to_lowercase(paper.publisher), to_lowercase(criteria.publisher))
    [] criteria.type = "bySubject" ->
         Contains(to_lowercase(paper.subject), to_lowercase(criteria.subject))
    [] criteria.type = "noPdf" -> paper.pdf_path = ""
    [] criteria.type = "hasPdf" -> paper.pdf_path # ""
    [] criteria.type = "unread" -> ~paper.is_read
    [] criteria.type = "favorites" -> paper.importance >= 4

\* db::papers::get_papers(&conn, None, None): SELECT ... FROM papers ORDER BY
\* created_at DESC (texts in DateFormat order as their instants do; rows of
\* one instant in table order).
get_papers(conn) ==
  LET rows == {conn.papers[id] : id \in DOMAIN conn.papers}
      before(x, y) == \/ x.created_at.secs > y.created_at.secs
                      \/ x.created_at.secs = y.created_at.secs /\ x.id < y.id
      place(x) == Cardinality({y \in rows : before(y, x)}) + 1
  IN [k \in 1..Cardinality(rows) |-> CHOOSE x \in rows : place(x) = k]

\* A get_smart_group_papers that takes the criteria as a conjunction in
\* every mode.
get_smart_group_papers_AlwaysAll(conn, criteria, match_mode, now) ==
  LET all_papers == get_papers(conn)
  IN IF criteria = <<>> THEN all_papers
     ELSE SelectSeq(all_papers,
            LAMBDA paper : \A k \in 1..Len(criteria) : matches_criteria(paper, criteria[k], now))

\* A get_smart_group_papers without the return for an empty criteria list.
get_smart_group_papers_NoEmptyCheck(conn, criteria, match_mode, now) ==
  LET mode == unwrap_or(match_mode, "and")
  IN SelectSeq(get_papers(conn),
       LAMBDA paper :
         IF mode = "or"
         THEN \E k \in 1..Len(criteria) : matches_criteria(paper, criteria[k], now)
         ELSE \A k \in 1..Len(criteria) : matches_criteria(paper, criteria[k], now))

\* Get papers matching smart group criteria
get_smart_group_papers(conn, criteria, match_mode, now) ==
  LET mode == unwrap_or(match_mode, "and")
      all_papers == get_papers(conn)
  IN IF criteria = <<>> THEN all_papers
     ELSE SelectSeq(all_papers,
            LAMBDA paper :
              IF mode = "or"
              THEN \E k \in 1..Len(criteria) : matches_criteria(paper, criteria[k], now)
              ELSE \A k \in 1..Len(criteria) : matches_criteria(paper, criteria[k], now))

\* The model's clock counts seconds from the start of this year, in years
\* of 365 days.
ClockEpochYear == 2023

YearDays == 365

\* chrono::Utc::now().format("%Y").to_string().parse::<i32>().unwrap_or(2024)
current_year(now) == ClockEpochYear + now \div (YearDays * DaySeconds)

\* A SmartGroup value.
SmartGroup(id, name, criteria, match_mode, icon, color, created_at) ==
  [ id |-> id, name |-> name, criteria |-> criteria, match_mode |-> match_mode,
    icon |-> icon, color |-> color, created_at |-> created_at ]

\* The predefined groups with ByImportance(4) as the criterion of Favorites.
get_predefined_smart_groups_FavoritesByImportance(now) ==
  LET group(id, name, criterion, icon, color) ==
        SmartGroup(id, name, <<criterion>>, "and", Some(icon), Some(color),
                   Timestamp(DateFormat, now))
  IN << group("unread", <<"Unread Papers">>, [type |-> "unread"], "book-open", "#3b82f6"),
        group("favorites", <<"Favorites">>, [type |-> "byImportance", importance |-> 4],
              "star", "#eab308") >>

\* Get predefined smart groups
get_predefined_smart_groups(now) ==
  LET group(id, name, criterion, icon, color) ==
        SmartGroup(id, name, <<criterion>>, "and", Some(icon), Some(color),
                   Timestamp(DateFormat, now))
  IN << group("unread", <<"Unread Papers">>, [type |-> "unread"], "book-open", "#3b82f6"),
        group("favorites", <<"Favorites">>, [type |-> "favorites"], "star", "#eab308"),
        group("recent-week", <<"Added This Week">>, [type |-> "recentlyAdded", days |-> 7],
              "clock", "#22c55e"),
        group("recent-month", <<"Added This Month">>, [type |-> "recentlyAdded", days |-> 30],
              "calendar", "#06b6d4"),
        group("this-year", <<"Published in ", current_year(now)>>,
              [type |-> "byYear", year |-> current_year(now)], "calendar-days", "#8b5cf6"),
        group("no-pdf", <<"Missing PDFs">>, [type |-> "noPdf"], "file-x", "#ef4444"),
        group("qualitative", <<"Qualitative Research">>,
              [type |-> "byResearchType", qualitative |-> TRUE, quantitative |-> FALSE],
              "message-square", "#f97316"),
        group("quantitative", <<"Quantitative Research">>,
              [type |-> "byResearchType", qualitative |-> FALSE, quantitative |-> TRUE],
              "bar-chart", "#14b8a6"),
        group("mixed-methods", <<"Mixed Methods">>,
              [type |-> "byResearchType", qualitative |-> TRUE, quantitative |-> TRUE],
              "git-merge", "#ec4899") >>

\* ------------------------------------------------- stored smart groups

MaxGroups == 2

\* The ids Uuid::new_v4 gives to the groups.
GroupIds == {"uuid-1", "uuid-2", "uuid-3"}

\* The names of the callers, in the order of SQLite's BINARY collation.
GroupNames == << <<"Alpha">>, <<"beta">> >>

\* The fields of the value of each SmartGroupCriteria variant.
VariantFields ==
  [ byYear |-> {"year"}, byYearRange |-> {"start", "end"}, byAuthor |-> {"author"},
    byKeyword |-> {"keyword"}, byTag |-> {"tag"}, byReadStatus |-> {"is_read"},
    byImportance |-> {"importance"}, byResearchType |-> {"qualitative", "quantitative"},
    recentlyAdded |-> {"days"}, recentlyAnalyzed |-> {"days"},
    byPublisher |-> {"publisher"}, bySubject |-> {"subject"},
    noPdf |-> {}, hasPdf |-> {}, unread |-> {}, favorites |-> {} ]

\* Serialize for SmartGroupCriteria, #[serde(tag = "type", content = "value")]:
\* the object {"type": .., "value": ..} of one criterion.
CriterionToJson(c) ==
  [type |-> c.type, value |-> [f \in DOMAIN c \ {"type"} |-> c[f]]]

\* Deserialize for SmartGroupCriteria: the criterion of an object, or an
\* error for an unknown variant or a value of another shape.
CriterionFromJson(obj) ==
  IF obj.type \in DOMAIN VariantFields /\ DOMAIN obj.value = VariantFields[obj.type]
  THEN Some([f \in {"type"} \cup DOMAIN obj.value |->
              IF f = "type" THEN obj.type ELSE obj.value[f]])
  ELSE None

\* A text: a JSON array of objects, or a text that is no JSON array.
JsonArray(items) == [syntax |-> "array", items |-> items]

NotJson == [syntax |-> "other", items |-> <<>>]

\* serde_json::to_string(&input.criteria)
to_string(criteria) ==
  JsonArray([k \in 1..Len(criteria) |-> CriterionToJson(criteria[k])])

\* serde_json::from_str::<Vec<SmartGroupCriteria>>(&criteria_json)
from_str(criteria_json) ==
  IF /\ criteria_json.syntax = "array"
     /\ \A k \in 1..Len(criteria_json.items) :
          CriterionFromJson(criteria_json.items[k]) # None
  THEN Some([k \in 1..Len(criteria_json.items) |->
              CriterionFromJson(criteria_json.items[k])[1]])
  ELSE None

\* CreateSmartGroupInput
CreateSmartGroupInputs ==
  LET input(name, criteria, match_mode, icon, color) ==
        [name |-> name, criteria |-> criteria, match_mode |-> match_mode,
         icon |-> icon, color |-> color]
  IN { input(GroupNames[1], <<>>, "and", None, None),
       input(GroupNames[2], <<[type |-> "favorites"]>>, "or", Some("star"), Some("#eab308")),
       input(GroupNames[1],
             <<[type |-> "byYearRange", start |-> 2020, end |-> 2023],
               [type |-> "byTag", tag |-> <<"a">>]>>,
             "and", None, Some("#3b82f6")),
       input(GroupNames[2], <<[type |-> "byYear", year |-> 2024]>>, "and", None, None) }

\* The criteria column of rows the database file holds from outside this
\* build of create_smart_group: the column default, a written list, a text
\* that is no JSON, and a list with a variant this build does not know.
StoredCriteria ==
  { JsonArray(<<>>),
    to_string(<<[type |-> "unread"]>>),
    NotJson,
    JsonArray(<<CriterionToJson([type |-> "unread"]), [type |-> "byColor", value |-> <<>>]>>) }

\* A smart_groups row.
GroupRow(id, input, criteria_json, now) ==
  [ id |-> id, name |-> input.name, criteria |-> criteria_json,
    match_mode |-> input.match_mode, icon |-> input.icon, color |-> input.color,
    created_at |-> Timestamp(DateFormat, now) ]

\* The smart_groups tables a database file may hold when the program opens it.
StoredTables ==
  LET row(k, name, text) ==
        GroupRow(IF k = 1 THEN "uuid-1" ELSE "uuid-2",
                 [name |-> name, match_mode |-> "and", icon |-> None, color |-> None],
                 text, 0)
  IN {<<>>}
     \cup {<<row(1, GroupNames[2], a)>> : a \in StoredCriteria}
     \cup {<<row(1, GroupNames[2], a), row(2, GroupNames[1], b)>> :
             a \in StoredCriteria, b \in StoredCriteria}

\* INSERT INTO smart_groups (id, name, criteria, match_mode, icon, color,
\* created_at) VALUES (..)
insert_smart_group(conn, row) ==
  [conn EXCEPT !.smart_groups = Append(@, row)]

\* DELETE FROM smart_groups WHERE id = ?
delete_smart_group(conn, group_id) ==
  [conn EXCEPT !.smart_groups = SelectSeq(@, LAMBDA row : row.id # group_id)]

\* The place of a name in the order of the names.
NameRank(name) == CHOOSE k \in 1..Len(GroupNames) : GroupNames[k] = name

\* SELECT .. FROM smart_groups ORDER BY name: rows of one name in rowid order.
SmartGroupRows(conn) ==
  LET rows == conn.smart_groups
      before(i, j) == \/ NameRank(rows[i].name) < NameRank(rows[j].name)
                      \/ NameRank(rows[i].name) = NameRank(rows[j].name) /\ i < j
      place(i) == Cardinality({j \in 1..Len(rows) : before(j, i)}) + 1
  IN [k \in 1..Len(rows) |-> rows[CHOOSE i \in 1..Len(rows) : place(i) = k]]

\* A get_smart_groups that leaves out the rows whose criteria it cannot read.
select_smart_groups_DropsUnreadable(conn) ==
  LET rows == SelectSeq(SmartGroupRows(conn), LAMBDA row : from_str(row.criteria) # None)
  IN [k \in 1..Len(rows) |->
       SmartGroup(rows[k].id, rows[k].name, from_str(rows[k].criteria)[1],
                  rows[k].match_mode, rows[k].icon, rows[k].color, rows[k].created_at)]

\* get_smart_groups: the SmartGroup of each row, with
\* serde_json::from_str(&criteria_json).unwrap_or_default() as its criteria.
select_smart_groups(conn) ==
  LET rows == SmartGroupRows(conn)
  IN [k \in 1..Len(rows) |->
       SmartGroup(rows[k].id, rows[k].name, unwrap_or(from_str(rows[k].criteria), <<>>),
                  rows[k].match_mode, rows[k].icon, rows[k].color, rows[k].created_at)]

\* ------------------------------------------------------------- the state

VARIABLES
  conn,          \* the database behind DbConnection
  next_paper,    \* the next fresh paper id (Uuid::new_v4 never repeats)
  pc,            \* where each command thread is
  holds,         \* holds[t]: thread t owns the MutexGuard of the connection
  call,          \* paper_id of the index_paper call a thread is in, or None
  text,          \* index_paper's local text
  batch_papers,  \* index_all_papers' local papers (ids as enumerated)
  results,       \* index_all_papers' local results
  ret,           \* the response an indexing command returned in this step, if any
  emitted,       \* the "paper-indexed" event this step emitted, if any
  sweep,         \* a caller paging through the results of one search
  clock          \* chrono::Utc::now(), in seconds

vars == <<conn, next_paper, pc, holds, call, text, batch_papers,
          results, ret, emitted, sweep, clock>>

locals == <<call, text, batch_papers, results>>

\* The FullTextSearchQuery values the search command is given.
SearchInputs ==
  { [query |-> <<"a", "B", "!">>, limit |-> None, offset |-> None, folder_id |-> None],
    [query |-> <<"C">>, limit |-> Some(1), offset |-> None, folder_id |-> Some(DefaultFolder)] }

\* The UpdatePaperInput values update_paper is given: the PDF is detached.
UpdateInputs ==
  { [pdf_path |-> Some(""), folder_id |-> None] }

NoResponse == [cmd |-> [op |-> "none"], res |-> [ok |-> FALSE, err |-> "none"]]

Response(c, r) == [cmd |-> c, res |-> r]

Ok(v) == [ok |-> TRUE, value |-> v]
Err(kind) == [ok |-> FALSE, err |-> kind]

IndexingStatus(paper_id, total_pages, indexed_pages, is_complete, error) ==
  [ paper_id |-> paper_id, total_pages |-> total_pages,
    indexed_pages |-> indexed_pages, is_complete |-> is_complete, error |-> error ]

\* No caller is paging.
NoSweep == [done |-> TRUE]

Init ==
  /\ conn = EmptyDb
  /\ next_paper = 1
  /\ pc = [t \in Threads |-> "idle"]
  /\ holds = [t \in Threads |-> FALSE]
  /\ call = [t \in Threads |-> None]
  /\ text = [t \in Threads |-> <<>>]
  /\ batch_papers = [t \in Threads |-> <<>>]
  /\ results = [t \in Threads |-> <<>>]
  /\ ret = NoResponse
  /\ clock = GroupNow
  /\ emitted = None
  /\ sweep = NoSweep

\* ------------------------------------------------------- command threads

\* A connection handed out without mutual exclusion.
CanLock_Always == TRUE

\* DbConnection::get: self.conn.lock() returns once no guard is alive.
CanLock == \A u \in Threads : ~holds[u]

\* Thread t is inside index_all_papers.
InBatch(t) == pc[t] = "ia_loop" \/ batch_papers[t] # <<>>

\* The command thread t runs.
Command(t) ==
  IF InBatch(t) THEN [op |-> "index_all_papers"]
  ELSE [op |-> "index_paper", paper_id |-> call[t][1]]

\* Thread t returns res to the frontend: its guard is dropped, its locals go.
Finish(t, c, res) ==
  /\ pc' = [pc EXCEPT ![t] = "idle"]
  /\ holds' = [holds EXCEPT ![t] = FALSE]
  /\ ret' = Response(c, res)
  /\ call' = [call EXCEPT ![t] = None]
  /\ text' = [text EXCEPT ![t] = <<>>]
  /\ batch_papers' = [batch_papers EXCEPT ![t] = <<>>]
  /\ results' = [results EXCEPT ![t] = <<>>]

\* index_paper returns res, to the frontend or to index_all_papers' loop:
\*   let status = index_paper(app.clone(), db.clone(), paper_id)?;
\*   results.push(status);
IpReturn(t, res) ==
  IF InBatch(t) /\ res.ok
  THEN /\ results' = [results EXCEPT ![t] = Append(@, res.value)]
       /\ pc' = [pc EXCEPT ![t] = "ia_loop"]
       /\ holds' = [holds EXCEPT ![t] = FALSE]
       /\ call' = [call EXCEPT ![t] = None]
       /\ text' = [text EXCEPT ![t] = <<>>]
       /\ ret' = NoResponse
       /\ UNCHANGED batch_papers
  ELSE Finish(t, Command(t), res)

\* The rowid the page of paper_id would get stays within the bound.
RowidInBound(paper_id) ==
  NewRowid({r \in conn.pdf_pages : r.paper_id # paper_id}) <= MaxRowid

\* index_paper(paper_id) is invoked and gets the connection, or the error
\* of a poisoned lock:
\*   let conn = db.get()?;
IndexPaper(t) ==
  /\ pc[t] = "idle"
  /\ CanLock
  /\ \E paper_id \in 1..(next_paper - 1) :
       /\ RowidInBound(paper_id)
       /\ \/ /\ call' = [call EXCEPT ![t] = Some(paper_id)]
             /\ holds' = [holds EXCEPT ![t] = TRUE]
             /\ pc' = [pc EXCEPT ![t] = "ip_query"]
             /\ ret' = NoResponse
          \/ /\ ret' = Response([op |-> "index_paper", paper_id |-> paper_id],
                                 Err("Database"))
             /\ UNCHANGED <<call, holds, pc>>
  /\ emitted' = None
  /\ UNCHANGED <<sweep, clock>>
  /\ UNCHANGED <<conn, next_paper, text, batch_papers, results>>

\* An index_paper without the pdf_path.is_empty() return.
IpQuery_NoEmptyCheck(t) ==
  /\ pc[t] = "ip_query"
  /\ IF call[t][1] \notin DOMAIN conn.papers
     THEN IpReturn(t, Err("NotFound: Paper not found"))
     ELSE /\ pc' = [pc EXCEPT ![t] = "ip_extract"]
          /\ ret' = NoResponse
          /\ UNCHANGED <<holds, locals>>
  /\ emitted' = None
  /\ UNCHANGED <<sweep, clock>>
  /\ UNCHANGED <<conn, next_paper>>

\* An index_paper that answers an unknown id like a paper without a PDF.
IpQuery_UnknownIsNoPdf(t) ==
  /\ pc[t] = "ip_query"
  /\ IF call[t][1] \notin DOMAIN conn.papers
     THEN IpReturn(t, Ok(IndexingStatus(call[t][1], 0, 0, FALSE, Some(NoPdfMsg))))
     ELSE IF conn.papers[call[t][1]].pdf_path = ""
     THEN IpReturn(t, Ok(IndexingStatus(call[t][1], 0, 0, FALSE, Some(NoPdfMsg))))
     ELSE /\ pc' = [pc EXCEPT ![t] = "ip_extract"]
          /\ ret' = NoResponse
          /\ UNCHANGED <<holds, locals>>
  /\ emitted' = None
  /\ UNCHANGED <<sweep, clock>>
  /\ UNCHANGED <<conn, next_paper>>

\* index_paper: SELECT pdf_path FROM papers WHERE id = ?
IpQuery(t) ==
  /\ pc[t] = "ip_query"
  /\ IF call[t][1] \notin DOMAIN conn.papers
     THEN IpReturn(t, Err("NotFound: Paper not found"))
     ELSE IF conn.papers[call[t][1]].pdf_path = ""
     THEN IpReturn(t, Ok(IndexingStatus(call[t][1], 0, 0, FALSE, Some(NoPdfMsg))))
     ELSE /\ pc' = [pc EXCEPT ![t] = "ip_extract"]
          /\ ret' = NoResponse
          /\ UNCHANGED <<holds, locals>>
  /\ emitted' = None
  /\ UNCHANGED <<sweep, clock>>
  /\ UNCHANGED <<conn, next_paper>>

\* An index_paper that clears the pages before it extracts the text.
IpExtract_ClearsFirst(t) ==
  /\ pc[t] = "ip_extract"
  /\ \/ \E msg \in {NotFoundMsg, ParseMsg} :
          IpReturn(t, Ok(IndexingStatus(call[t][1], 0, 0, FALSE, Some(msg))))
     \/ \E x \in Texts :
          /\ text' = [text EXCEPT ![t] = x]
          /\ pc' = [pc EXCEPT ![t] = "ip_clear"]
          /\ ret' = NoResponse
          /\ UNCHANGED <<holds, call, batch_papers, results>>
  /\ conn' = delete_pdf_pages(conn, call[t][1])
  /\ emitted' = None
  /\ UNCHANGED <<sweep, clock>>
  /\ UNCHANGED next_paper

\* index_paper: extract_pdf_text(&pdf_path); what the file holds is the
\* environment's choice.
IpExtract(t) ==
  /\ pc[t] = "ip_extract"
  /\ \/ \E msg \in {NotFoundMsg, ParseMsg} :
          IpReturn(t, Ok(IndexingStatus(call[t][1], 0, 0, FALSE, Some(msg))))
     \/ \E x \in Texts :
          /\ text' = [text EXCEPT ![t] = x]
          /\ pc' = [pc EXCEPT ![t] = "ip_clear"]
          /\ ret' = NoResponse
          /\ UNCHANGED <<holds, call, batch_papers, results>>
  /\ emitted' = None
  /\ UNCHANGED <<sweep, clock>>
  /\ UNCHANGED <<conn, next_paper>>

\* An index_paper without the delete_pdf_pages call.
IpClear_Skipped(t) ==
  /\ pc[t] = "ip_clear"
  /\ pc' = [pc EXCEPT ![t] = "ip_insert"]
  /\ ret' = NoResponse
  /\ emitted' = None
  /\ UNCHANGED <<sweep, clock>>
  /\ UNCHANGED <<conn, holds, locals, next_paper>>

\* An index_paper that gives the connection back after delete_pdf_pages.
IpClear_DropsGuard(t) ==
  /\ pc[t] = "ip_clear"
  /\ conn' = delete_pdf_pages(conn, call[t][1])
  /\ pc' = [pc EXCEPT ![t] = "ip_insert"]
  /\ holds' = [holds EXCEPT ![t] = FALSE]
  /\ ret' = NoResponse
  /\ emitted' = None
  /\ UNCHANGED <<sweep, clock>>
  /\ UNCHANGED <<locals, next_paper>>

\* index_paper: delete_pdf_pages(&conn, &paper_id)?
IpClear(t) ==
  /\ pc[t] = "ip_clear"
  /\ \/ /\ IpReturn(t, Err("Database"))
        /\ UNCHANGED conn
     \/ /\ conn' = delete_pdf_pages(conn, call[t][1])
        /\ pc' = [pc EXCEPT ![t] = "ip_insert"]
        /\ ret' = NoResponse
        /\ UNCHANGED <<holds, locals>>
  /\ emitted' = None
  /\ UNCHANGED <<sweep, clock>>
  /\ UNCHANGED next_paper

\* An index_paper that clears the pages after the insert instead of before.
IpInsert_ThenClears(t) ==
  /\ pc[t] = "ip_insert"
  /\ conn' = delete_pdf_pages(insert_pdf_page(conn, call[t][1], FirstPage, text[t]),
                              call[t][1])
  /\ pc' = [pc EXCEPT ![t] = "ip_mark"]
  /\ ret' = NoResponse
  /\ emitted' = None
  /\ UNCHANGED <<sweep, clock>>
  /\ UNCHANGED <<holds, locals, next_paper>>

\* An index_paper that reports a failed insert in the status it returns.
IpInsert_ReportsFailure(t) ==
  /\ pc[t] = "ip_insert"
  /\ \/ /\ IpReturn(t, Ok(IndexingStatus(call[t][1], 0, 0, FALSE, Some("Database error"))))
        /\ UNCHANGED conn
     \/ /\ conn' = insert_pdf_page(conn, call[t][1], FirstPage, text[t])
        /\ pc' = [pc EXCEPT ![t] = "ip_mark"]
        /\ ret' = NoResponse
        /\ UNCHANGED <<holds, locals>>
  /\ emitted' = None
  /\ UNCHANGED <<sweep, clock>>
  /\ UNCHANGED next_paper

\* index_paper: insert_pdf_page(&conn, &paper_id, 1, &text)?
IpInsert(t) ==
  /\ pc[t] = "ip_insert"
  /\ \/ /\ IpReturn(t, Err("Database"))
        /\ UNCHANGED conn
     \/ /\ conn' = insert_pdf_page(conn, call[t][1], FirstPage, text[t])
        /\ pc' = [pc EXCEPT ![t] = "ip_mark"]
        /\ ret' = NoResponse
        /\ UNCHANGED <<holds, locals>>
  /\ emitted' = None
  /\ UNCHANGED <<sweep, clock>>
  /\ UNCHANGED next_paper

\* An index_paper that emits "paper-indexed" before it stores the flag.
IpMark_EmitsFirst(t) ==
  /\ pc[t] = "ip_mark"
  /\ \/ /\ IpReturn(t, Err("Database"))
        /\ UNCHANGED conn
     \/ /\ \E now \in Times : conn' = mark_paper_indexed(conn, call[t][1], now)
        /\ pc' = [pc EXCEPT ![t] = "ip_emit"]
        /\ ret' = NoResponse
        /\ UNCHANGED <<holds, locals>>
  /\ emitted' = Some(call[t][1])
  /\ UNCHANGED <<sweep, clock>>
  /\ UNCHANGED next_paper

\* index_paper: mark_paper_indexed(&conn, &paper_id)?
IpMark(t) ==
  /\ pc[t] = "ip_mark"
  /\ \/ /\ IpReturn(t, Err("Database"))
        /\ UNCHANGED conn
     \/ /\ \E now \in Times : conn' = mark_paper_indexed(conn, call[t][1], now)
        /\ pc' = [pc EXCEPT ![t] = "ip_emit"]
        /\ ret' = NoResponse
        /\ UNCHANGED <<holds, locals>>
  /\ emitted' = None
  /\ UNCHANGED <<sweep, clock>>
  /\ UNCHANGED next_paper

\* index_paper: app.emit("paper-indexed", &paper_id), then Ok(status).
IpEmit(t) ==
  /\ pc[t] = "ip_emit"
  /\ emitted' = Some(call[t][1])
  /\ UNCHANGED <<sweep, clock>>
  /\ IpReturn(t, Ok(IndexingStatus(call[t][1], 1, 1, TRUE, None)))
  /\ UNCHANGED <<conn, next_paper>>

\* An index_all_papers without drop(conn): the guard lives on in the loop.
IndexAllPapers_KeepsGuard(t) ==
  /\ pc[t] = "idle"
  /\ CanLock
  /\ Cardinality({u \in Threads : InBatch(u)}) < MaxBatches
  /\ batch_papers' = [batch_papers EXCEPT ![t] = get_unindexed_papers(conn)]
  /\ pc' = [pc EXCEPT ![t] = "ia_loop"]
  /\ holds' = [holds EXCEPT ![t] = TRUE]
  /\ ret' = NoResponse
  /\ emitted' = None
  /\ UNCHANGED <<sweep, clock>>
  /\ UNCHANGED <<conn, next_paper, call, text, results>>

\* index_all_papers up to the loop:
\*   let conn = db.get()?; get_unindexed_papers(&conn)?; drop(conn);
IndexAllPapers(t) ==
  /\ pc[t] = "idle"
  /\ CanLock
  /\ Cardinality({u \in Threads : InBatch(u)}) < MaxBatches
  /\ \/ /\ ret' = Response([op |-> "index_all_papers"], Err("Database"))
        /\ UNCHANGED <<pc, batch_papers>>
     \/ /\ batch_papers' = [batch_papers EXCEPT ![t] = get_unindexed_papers(conn)]
        /\ pc' = [pc EXCEPT ![t] = "ia_loop"]
        /\ ret' = NoResponse
  /\ emitted' = None
  /\ UNCHANGED <<sweep, clock>>
  /\ UNCHANGED <<conn, next_paper, holds, call, text, results>>

\* index_all_papers: for (paper_id, _pdf_path) in papers { index_paper(..) },
\* where index_paper starts with db.get(); Ok(results) after the last.
IaLoop(t) ==
  /\ pc[t] = "ia_loop"
  /\ IF Len(results[t]) < Len(batch_papers[t])
     THEN LET paper_id == batch_papers[t][Len(results[t]) + 1]
          IN /\ CanLock
             /\ RowidInBound(paper_id)
             /\ \/ /\ call' = [call EXCEPT ![t] = Some(paper_id)]
                   /\ holds' = [holds EXCEPT ![t] = TRUE]
                   /\ pc' = [pc EXCEPT ![t] = "ip_query"]
                   /\ ret' = NoResponse
                   /\ UNCHANGED <<text, batch_papers, results>>
                \/ Finish(t, [op |-> "index_all_papers"], Err("Database"))
     ELSE Finish(t, [op |-> "index_all_papers"], Ok(results[t]))
  /\ emitted' = None
  /\ UNCHANGED <<sweep, clock>>
  /\ UNCHANGED <<conn, next_paper>>

\* A command that runs from db.get() to its return in one piece: it needs
\* the connection free and leaves it free.
Atomic ==
  /\ \E t \in Threads : pc[t] = "idle"
  /\ CanLock
  /\ ret' = NoResponse
  /\ emitted' = None
  /\ UNCHANGED <<sweep, clock>>
  /\ UNCHANGED <<pc, holds, locals>>

\* search_full_text: search_pdf_content(&conn, &query) reads the store.
SearchFullText ==
  /\ \E query \in SearchInputs :
       LET response == Ok(search_pdf_content(conn, query))
       IN Atomic
  /\ UNCHANGED <<conn, next_paper>>

\* commands::papers::create_paper; the INSERT fails on an unknown folder_id
\* (FOREIGN KEY, PRAGMA foreign_keys = ON).
CreatePaper ==
  /\ next_paper <= MaxPapers
  /\ \E folder_id \in {DefaultFolder}, input \in PaperInputs(next_paper) :
       IF folder_id \in DOMAIN conn.folders
       THEN conn' = create_paper(conn, next_paper, folder_id, input)
       ELSE UNCHANGED conn
  /\ Atomic
  /\ next_paper' = next_paper + 1

\* commands::papers::update_paper; NotFound on an unknown paper.
UpdatePaper ==
  /\ \E paper_id \in 1..(next_paper - 1), input \in UpdateInputs :
       IF paper_id \in DOMAIN conn.papers
       THEN conn' = update_paper(conn, paper_id, input)
       ELSE UNCHANGED conn
  /\ Atomic
  /\ UNCHANGED next_paper

\* commands::papers::delete_paper; NotFound on an unknown paper.
DeletePaper ==
  /\ \E paper_id \in 1..(next_paper - 1) :
       IF paper_id \in DOMAIN conn.papers
       THEN conn' = delete_paper(conn, paper_id)
       ELSE UNCHANGED conn
  /\ Atomic
  /\ UNCHANGED next_paper

\* commands::papers::batch_delete_papers with up to MaxPapers ids.
BatchDeletePapers ==
  /\ \E paper_ids \in UNION {[1..n -> 1..(next_paper - 1)] : n \in 1..MaxPapers} :
       conn' = batch_delete_papers(conn, paper_ids)
  /\ Atomic
  /\ UNCHANGED next_paper

\* commands::folders::delete_folder; NotFound on an unknown folder.
DeleteFolder ==
  /\ \E folder_id \in FolderIds :
       IF folder_id \in DOMAIN conn.folders
       THEN conn' = delete_folder(conn, folder_id)
       ELSE UNCHANGED conn
  /\ Atomic
  /\ UNCHANGED next_paper

\* commands::topics::delete_topic; NotFound on an unknown topic.
DeleteTopic ==
  /\ IF DefaultTopic \in conn.topics
     THEN conn' = delete_topic(conn, DefaultTopic)
     ELSE UNCHANGED conn
  /\ Atomic
  /\ UNCHANGED next_paper

Next ==
  \/ SearchFullText
  \/ CreatePaper
  \/ UpdatePaper
  \/ DeletePaper
  \/ BatchDeletePapers
  \/ DeleteFolder
  \/ DeleteTopic
  \/ \E t \in Threads :
       \/ IndexPaper(t)
       \/ IpQuery(t)
       \/ IpExtract(t)
       \/ IpClear(t)
       \/ IpInsert(t)
       \/ IpMark(t)
       \/ IpEmit(t)
       \/ IndexAllPapers(t)
       \/ IaLoop(t)

Spec == Init /\ [][Next]_vars

\* ------------------------------------------------- paging through a search

\* The CreatePaperInput of the n-th paper with a PDF attached.
WithPdf(n) == CHOOSE input \in PaperInputs(n) : input.pdf_path # ""

\* The store after a second folder was created and n papers were created
\* (create_paper) and indexed with success (index_paper) one after the
\* other: paper k has page row k; the papers alternate between the two
\* folders, every third reads TextB and the others TextA.
Library(n) ==
  LET page(k) == [rowid |-> k, paper_id |-> k, page_number |-> FirstPage,
                  text_content |-> IF k % 3 = 0 THEN TextB ELSE TextA]
  IN [ topics |-> {DefaultTopic},
       folders |-> [f \in {DefaultFolder, DefaultFolder + 1} |-> [topic_id |-> DefaultTopic]],
       papers |-> [k \in 1..n |->
                    [folder_id |-> DefaultFolder + (k % 2), title |-> WithPdf(k).title,
                     author |-> WithPdf(k).author, pdf_path |-> WithPdf(k).pdf_path,
                     is_indexed |-> 1, indexed_at |-> Some(1)]],
       pdf_pages |-> {page(k) : k \in 1..n},
       pdf_pages_fts |-> {FtsEntry(page(k)) : k \in 1..n},
       smart_groups |-> <<>> ]

\* The numbers of indexed papers the caller may find in the store.
SweepSizes == (0..MaxSweepPapers) \cup {MaxLimit + 1}

\* The limits the caller pages with.
SweepLimits == (1..MaxSweepLimit) \cup {MaxLimit, MaxLimit + 1}

SweepQueries == {<<"a">>, <<"A", "B">>, <<"b">>}

SweepScopes == {None, Some(DefaultFolder), Some(DefaultFolder + 1)}

\* Library size and limit of a sweep: the small libraries with every limit,
\* the large one with the limits at the cap and above.
SweepCases ==
  {c \in SweepSizes \X SweepLimits : c[1] > MaxSweepPapers => c[2] >= MaxLimit}

\* A caller starts to page through a search over a library.
SweepInit ==
  /\ \E c \in SweepCases, q \in SweepQueries, f \in SweepScopes :
       /\ conn = Library(c[1])
       /\ next_paper = c[1] + 1
       /\ sweep = [query |-> q, folder_id |-> f, limit |-> c[2], offset |-> 0,
                   returned |-> 0, totals |-> {}, done |-> FALSE]
  /\ pc = [t \in Threads |-> "idle"]
  /\ holds = [t \in Threads |-> FALSE]
  /\ call = [t \in Threads |-> None]
  /\ text = [t \in Threads |-> <<>>]
  /\ batch_papers = [t \in Threads |-> <<>>]
  /\ results = [t \in Threads |-> <<>>]
  /\ ret = NoResponse
  /\ clock = GroupNow
  /\ emitted = None

\* The caller has got the response to the page at its offset: it adds up the
\* results and moves the offset on by its limit until it reaches the total.
Paged(s, response) ==
  [s EXCEPT !.returned = @ + Len(response.results),
            !.totals = @ \cup {response.total},
            !.offset = @ + s.limit,
            !.done = (s.offset + s.limit >= response.total)]

\* search_full_text for the next page of the sweep.
SweepPage ==
  /\ ~sweep.done
  /\ CanLock
  /\ sweep' = Paged(sweep, search_pdf_content(conn,
                  [query |-> sweep.query, limit |-> Some(sweep.limit),
                   offset |-> Some(sweep.offset), folder_id |-> sweep.folder_id]))
  /\ UNCHANGED clock
  /\ UNCHANGED <<conn, next_paper, pc, holds, locals, ret, emitted>>

SweepNext == SweepPage

SweepSpec == SweepInit /\ [][SweepNext]_vars

\* ------------------------------------------- deleting from an indexed library

\* The search terms of the callers: the runs of letters and digits of the
\* texts.
Terms == UNION {{SubSeq(x, TokenSpans(x)[k].b, TokenSpans(x)[k].e) :
                  k \in 1..Len(TokenSpans(x))} : x \in Texts}

\* The folder scopes of the callers.
Scopes == {None} \cup {Some(f) : f \in FolderIds}

\* A FullTextSearchQuery for q in scope f with the default window.
Scoped(q, f) == [query |-> q, limit |-> None, offset |-> None, folder_id |-> f]

\* The library holds up to MaxSweepPapers indexed papers in two folders.
DeleteInit ==
  /\ \E n \in 0..MaxSweepPapers :
       /\ conn = Library(n)
       /\ next_paper = n + 1
  /\ sweep = NoSweep
  /\ pc = [t \in Threads |-> "idle"]
  /\ holds = [t \in Threads |-> FALSE]
  /\ call = [t \in Threads |-> None]
  /\ text = [t \in Threads |-> <<>>]
  /\ batch_papers = [t \in Threads |-> <<>>]
  /\ results = [t \in Threads |-> <<>>]
  /\ ret = NoResponse
  /\ clock = GroupNow
  /\ emitted = None

\* search_full_text, with the response the caller gets.
SearchAnswered(query) ==
  /\ \E t \in Threads : pc[t] = "idle"
  /\ CanLock
  /\ ret' = Response([op |-> "search_full_text", query |-> query],
                     Ok(search_pdf_content(conn, query)))
  /\ emitted' = None
  /\ UNCHANGED <<conn, next_paper, pc, holds, locals, sweep, clock>>

SearchTerm == \E q \in Terms, f \in Scopes : SearchAnswered(Scoped(q, f))

DeleteNext ==
  \/ SearchTerm
  \/ DeletePaper
  \/ BatchDeletePapers
  \/ DeleteFolder
  \/ DeleteTopic

DeleteSpec == DeleteInit /\ [][DeleteNext]_vars

\* ------------------------------------------------- one search, any input

\* The characters of the callers' query strings: letters and a digit,
\* whitespace, hyphen and underscore, and characters the filter strips, some
\* of them operators of the FTS5 query language.
QueryChars == {"a", "B", "1", " ", "-", "_", "'", Quote, "*", "(", ":"}

\* The query strings: every string of up to MaxQueryLen characters.
QueryStrings == UNION {[1..n -> QueryChars] : n \in 0..MaxQueryLen}

\* The limits and offsets of the callers.
QueryLimits == {None, Some(-1), Some(0), Some(1), Some(MaxLimit), Some(MaxLimit + 1)}

QueryOffsets == {None, Some(0), Some(1)}

\* The requests made to a library of n papers: every query string with the
\* default window and no scope, and every term with every limit, offset and
\* scope; the large library gets the term "a", which all of its pages
\* hold, with every limit, offset and scope.
QueryInputs(n) ==
  {[query |-> q, limit |-> l, offset |-> o, folder_id |-> f] :
     q \in (IF n > MaxSweepPapers THEN {<<"a">>} ELSE Terms),
     l \in QueryLimits, o \in QueryOffsets, f \in Scopes}
  \cup (IF n > MaxSweepPapers THEN {} ELSE {Scoped(q, None) : q \in QueryStrings})

\* A caller is about to send one request to a library.
QueryInit ==
  /\ \E n \in SweepSizes :
       /\ conn = Library(n)
       /\ next_paper = n + 1
       /\ \E query \in QueryInputs(n) : sweep = [request |-> query, done |-> FALSE]
  /\ pc = [t \in Threads |-> "idle"]
  /\ holds = [t \in Threads |-> FALSE]
  /\ call = [t \in Threads |-> None]
  /\ text = [t \in Threads |-> <<>>]
  /\ batch_papers = [t \in Threads |-> <<>>]
  /\ results = [t \in Threads |-> <<>>]
  /\ ret = NoResponse
  /\ clock = GroupNow
  /\ emitted = None

\* search_full_text for the caller's request; the caller has its response.
QueryAnswer ==
  /\ ~sweep.done
  /\ \E t \in Threads : pc[t] = "idle"
  /\ CanLock
  /\ ret' = Response([op |-> "search_full_text", query |-> sweep.request],
                     Ok(search_pdf_content(conn, sweep.request)))
  /\ sweep' = [sweep EXCEPT !.done = TRUE]
  /\ UNCHANGED clock
  /\ emitted' = None
  /\ UNCHANGED <<conn, next_paper, pc, holds, locals>>

QueryNext == QueryAnswer

QuerySpec == QueryInit /\ [][QueryNext]_vars

\* ------------------------------------------------- asking for a smart group

\* The criteria lists of the callers: up to MaxCriteria criteria.
GroupCriteriaLists == UNION {[1..n -> GroupCriteria] : n \in 0..MaxCriteria}

\* A caller is about to ask for the papers of a smart group.
GroupInit ==
  /\ \E ids \in SUBSET (DOMAIN GroupPapers) :
       /\ conn = GroupLibrary(ids)
       /\ next_paper = 1 + Cardinality(DOMAIN GroupPapers)
  /\ \E criteria \in GroupCriteriaLists, match_mode \in GroupModes :
       sweep = [request |-> [criteria |-> criteria, match_mode |-> match_mode],
                done |-> FALSE]
  /\ pc = [t \in Threads |-> "idle"]
  /\ holds = [t \in Threads |-> FALSE]
  /\ call = [t \in Threads |-> None]
  /\ text = [t \in Threads |-> <<>>]
  /\ batch_papers = [t \in Threads |-> <<>>]
  /\ results = [t \in Threads |-> <<>>]
  /\ ret = NoResponse
  /\ clock = GroupNow
  /\ emitted = None

\* commands::automation::get_smart_group_papers for the caller's request:
\* db.get()? and get_papers(..)? may fail, else the papers are returned.
GetSmartGroupPapers ==
  /\ ~sweep.done
  /\ \E t \in Threads : pc[t] = "idle"
  /\ CanLock
  /\ \/ ret' = Response([op |-> "get_smart_group_papers", request |-> sweep.request],
                        Ok(get_smart_group_papers(conn, sweep.request.criteria,
                                                  sweep.request.match_mode, GroupNow)))
     \/ ret' = Response([op |-> "get_smart_group_papers", request |-> sweep.request],
                        Err("Database"))
  /\ sweep' = [sweep EXCEPT !.done = TRUE]
  /\ UNCHANGED clock
  /\ emitted' = None
  /\ UNCHANGED <<conn, next_paper, pc, holds, locals>>

GroupNext == GetSmartGroupPapers

GroupSpec == GroupInit /\ [][GroupNext]_vars

\* ------------------------------------------------ the smart-group commands

MaxYears == 1

\* The clock readings of the calls: a day of the first year and the same day
\* of the years after.
ClockReadings == {GroupNow + y * YearDays * DaySeconds : y \in 0..MaxYears}

\* A database file with a smart_groups table, opened at some time.
StoreInit ==
  /\ \E table \in StoredTables : conn = [EmptyDb EXCEPT !.smart_groups = table]
  /\ clock = GroupNow
  /\ next_paper = 1
  /\ pc = [t \in Threads |-> "idle"]
  /\ holds = [t \in Threads |-> FALSE]
  /\ call = [t \in Threads |-> None]
  /\ text = [t \in Threads |-> <<>>]
  /\ batch_papers = [t \in Threads |-> <<>>]
  /\ results = [t \in Threads |-> <<>>]
  /\ ret = NoResponse
  /\ emitted = None
  /\ sweep = NoSweep

\* What a smart-group command leaves alone.
StoreFrame ==
  /\ emitted' = None
  /\ UNCHANGED <<next_paper, pc, holds, locals, sweep, clock>>

\* commands::automation::create_smart_group
CreateSmartGroup ==
  /\ CanLock
  /\ Len(conn.smart_groups) < MaxGroups
  /\ \E input \in CreateSmartGroupInputs :
       \/ /\ ret' = Response([op |-> "create_smart_group", input |-> input], Err("Database"))
          /\ UNCHANGED conn
       \/ \E id \in GroupIds \ {conn.smart_groups[k].id : k \in 1..Len(conn.smart_groups)} :
            /\ conn' = insert_smart_group(conn,
                          GroupRow(id, input, to_string(input.criteria), clock))
            /\ ret' = Response([op |-> "create_smart_group", input |-> input],
                               Ok(SmartGroup(id, input.name, input.criteria, input.match_mode,
                                             input.icon, input.color,
                                             Timestamp(DateFormat, clock))))
  /\ StoreFrame

\* commands::automation::get_smart_groups
GetSmartGroups ==
  /\ CanLock
  /\ \/ ret' = Response([op |-> "get_smart_groups"], Ok(select_smart_groups(conn)))
     \/ ret' = Response([op |-> "get_smart_groups"], Err("Database"))
  /\ UNCHANGED conn
  /\ StoreFrame

\* commands::automation::delete_smart_group
DeleteSmartGroup ==
  /\ CanLock
  /\ \E group_id \in GroupIds :
       \/ /\ ret' = Response([op |-> "delete_smart_group", group_id |-> group_id], Err("Database"))
          /\ UNCHANGED conn
       \/ /\ conn' = delete_smart_group(conn, group_id)
          /\ ret' = Response([op |-> "delete_smart_group", group_id |-> group_id], Ok(<<>>))
  /\ StoreFrame

\* A get_predefined_smart_groups that saves the groups it builds.
GetPredefinedSmartGroups_Saves ==
  /\ ret' = Response([op |-> "get_predefined_smart_groups"],
                     Ok(get_predefined_smart_groups(clock)))
  /\ conn' = IF Len(conn.smart_groups) < MaxGroups
             THEN insert_smart_group(conn,
                    GroupRow("unread", [name |-> GroupNames[1], match_mode |-> "and",
                                        icon |-> None, color |-> None],
                             to_string(<<[type |-> "unread"]>>), clock))
             ELSE conn
  /\ StoreFrame

\* commands::automation::get_predefined_smart_groups: it takes no database
\* handle.
GetPredefinedSmartGroups ==
  /\ ret' = Response([op |-> "get_predefined_smart_groups"],
                     Ok(get_predefined_smart_groups(clock)))
  /\ UNCHANGED conn
  /\ StoreFrame

\* Time passes between two commands.
ClockAdvances ==
  /\ \E later \in ClockReadings : later > clock /\ clock' = later
  /\ ret' = NoResponse
  /\ emitted' = None
  /\ UNCHANGED <<conn, next_paper, pc, holds, locals, sweep>>

StoreNext ==
  \/ CreateSmartGroup
  \/ GetSmartGroups
  \/ DeleteSmartGroup
  \/ GetPredefinedSmartGroups
  \/ ClockAdvances

StoreSpec == StoreInit /\ [][StoreNext]_vars

\* ---------------------------------------------- insert_pdf_page by itself

\* The arguments of a call of insert_pdf_page on a library of n papers.
PageInputs(n) ==
  [ paper_id : 1..n, page_number : {FirstPage, FirstPage + 1}, text_content : Texts ]

\* A library with a page 1 for each paper, and one call of insert_pdf_page.
PageInit ==
  /\ \E n \in 1..MaxSweepPapers :
       /\ conn = Library(n)
       /\ next_paper = n + 1
       /\ \E request \in PageInputs(n) : sweep = [request |-> request, done |-> FALSE]
  /\ pc = [t \in Threads |-> "idle"]
  /\ holds = [t \in Threads |-> FALSE]
  /\ call = [t \in Threads |-> None]
  /\ text = [t \in Threads |-> <<>>]
  /\ batch_papers = [t \in Threads |-> <<>>]
  /\ results = [t \in Threads |-> <<>>]
  /\ ret = NoResponse
  /\ clock = GroupNow
  /\ emitted = None

\* db::pdf_content::insert_pdf_page for the caller's arguments: the
\* statement is executed, or fails and leaves the store as it is.
InsertPdfPage ==
  /\ ~sweep.done
  /\ \/ /\ conn' = insert_pdf_page(conn, sweep.request.paper_id,
                                     sweep.request.page_number, sweep.request.text_content)
        /\ ret' = Response([op |-> "insert_pdf_page", request |-> sweep.request],
                           Ok(sweep.request))
     \/ /\ ret' = Response([op |-> "insert_pdf_page", request |-> sweep.request],
                           Err("Database"))
        /\ UNCHANGED conn
  /\ sweep' = [request |-> sweep.request, done |-> TRUE, ok |-> ret'.res.ok]
  /\ emitted' = None
  /\ UNCHANGED <<next_paper, pc, holds, locals, clock>>

PageNext ==
  \/ InsertPdfPage
  \/ SearchTerm

PageSpec == PageInit /\ [][PageNext]_vars

\* ------------------------------------------------- the status of a paper

\* commands::pdf_indexing::get_paper_index_status
GetPaperIndexStatus ==
  /\ \E t \in Threads : pc[t] = "idle"
  /\ CanLock
  /\ \E paper_id \in 1..MaxPapers :
       \/ ret' = Response([op |-> "get_paper_index_status", paper_id |-> paper_id],
                          Ok(get_paper_index_status(conn, paper_id)))
       \/ ret' = Response([op |-> "get_paper_index_status", paper_id |-> paper_id],
                          Err("Database"))
  /\ emitted' = None
  /\ UNCHANGED <<conn, next_paper, pc, holds, locals, sweep, clock>>

\* The commands of Spec and get_paper_index_status.
StatusNext == Next \/ GetPaperIndexStatus

StatusSpec == Init /\ [][StatusNext]_vars

\* ------------------------------------------- commands one after the other

\* No command is running.
AllIdle == \A u \in Threads : pc[u] = "idle"

\* No command other than the one of thread t is running.
Alone(t) == \A u \in Threads \ {t} : pc[u] = "idle"

\* The commands of Spec, each called after the one before has returned.
SerialNext ==
  \/ AllIdle /\ CreatePaper
  \/ AllIdle /\ UpdatePaper
  \/ AllIdle /\ DeletePaper
  \/ \E t \in Threads :
       /\ Alone(t)
       /\ \/ IndexPaper(t)
          \/ IpQuery(t)
          \/ IpExtract(t)
          \/ IpClear(t)
          \/ IpInsert(t)
          \/ IpMark(t)
          \/ IpEmit(t)
          \/ IndexAllPapers(t)
          \/ IaLoop(t)

SerialSpec == Init /\ [][SerialNext]_vars

\* ------------------------------------------------------------ properties

\* The pdf_pages rows of paper d in store c.
PagesOf(c, d) == {r \in c.pdf_pages : r.paper_id = d}

\* Paper d has exactly one page row in c: page FirstPage.
OnlyFirstPage(c, d) ==
  /\ Cardinality(PagesOf(c, d)) = 1
  /\ \A r \in PagesOf(c, d) : r.page_number = FirstPage

\* C1: in every reachable state the full-text index holds exactly one entry
\* for each pdf_pages row, with that row's rowid and text, and nothing else;
\* as this holds before and after every step, the index never lags a page
\* insert or delete.
C1_IndexMatchesPages ==
  /\ conn.pdf_pages_fts = {FtsEntry(r) : r \in conn.pdf_pages}
  /\ \A r1, r2 \in conn.pdf_pages : r1.rowid = r2.rowid => r1 = r2

\* C1 witness: paper 2 was indexed while paper 1 had a page (its page got
\* rowid 2), then paper 1 went, and its page and entry went with it.
C1_Witness ==
  /\ 1 \notin DOMAIN conn.papers
  /\ \E r \in conn.pdf_pages :
       /\ r.paper_id = 2 /\ r.rowid = 2
       /\ conn.pdf_pages = {r}
       /\ conn.pdf_pages_fts = {FtsEntry(r)}

\* C2: no paper ever has two page rows with the same page number, and from
\* the insert of index_paper on (the state index_paper returns in included)
\* the paper has exactly one page row, page 1, also when it was indexed
\* before.
C2_OnePagePerNumber ==
  /\ \A r1, r2 \in conn.pdf_pages :
       r1.paper_id = r2.paper_id /\ r1.page_number = r2.page_number => r1 = r2
  /\ \A t \in Threads :
       pc[t] \in {"ip_mark", "ip_emit"} => OnlyFirstPage(conn, call[t][1])
  /\ emitted # None => OnlyFirstPage(conn, emitted[1])

\* C2 witness: a paper that was already marked indexed has been indexed again
\* up to the insert, and has one page row.
C2_Witness ==
  \E t \in Threads :
    /\ pc[t] = "ip_mark"
    /\ call[t][1] \in DOMAIN conn.papers
    /\ conn.papers[call[t][1]].is_indexed = 1
    /\ OnlyFirstPage(conn, call[t][1])

\* The letter c in upper case and in lower case.
Upper(c) ==
  CASE c = "a" -> "A" [] c = "b" -> "B" [] c = "c" -> "C" [] OTHER -> c

Lower(c) ==
  CASE c = "A" -> "a" [] c = "B" -> "b" [] c = "C" -> "c" [] OTHER -> c

UpperCase(w) == [i \in 1..Len(w) |-> Upper(w[i])]

LowerCase(w) == [i \in 1..Len(w) |-> Lower(w[i])]

\* The word w as it is written, in upper case and in lower case.
CaseVariants(w) == {w, UpperCase(w), LowerCase(w)}

\* The whitespace-separated words of a text.
WordsOf(s) == {split_whitespace(s)[k] : k \in 1..Len(split_whitespace(s))}

\* The maximal runs of letters and digits of a text.
RunsOf(s) == {SubSeq(s, TokenSpans(s)[k].b, TokenSpans(s)[k].e) : k \in 1..Len(TokenSpans(s))}

\* A word of letters, digits, hyphens and underscores with a letter or digit.
PlainWord(w) ==
  /\ \A i \in 1..Len(w) : is_alphanumeric(w[i]) \/ w[i] \in {"-", "_"}
  /\ \E i \in 1..Len(w) : is_alphanumeric(w[i])

\* An unscoped search_full_text for q with the default window.
Unscoped(q) == [query |-> q, limit |-> None, offset |-> None, folder_id |-> None]

\* In store c the search for w, in each letter case, returns a result for
\* paper d with page 1, the paper's title and author, and a snippet in which
\* an occurrence of w in the text stands between the highlight markers.
Finds(c, d, txt, w) ==
  \A q \in CaseVariants(w) :
    LET r == search_pdf_content(c, Unscoped(q)).results
    IN \E k \in DOMAIN r :
         /\ r[k].paper_id = d
         /\ r[k].page_number = FirstPage
         /\ r[k].paper_title = c.papers[d].title
         /\ r[k].paper_author = c.papers[d].author
         /\ \E b, e \in 1..Len(txt) :
              /\ b <= e
              /\ LowerCase(SubSeq(txt, b, e)) = LowerCase(q)
              /\ Contains(r[k].snippet, MarkOpen \o SubSeq(txt, b, e) \o MarkClose)

\* Thread t returns from index_paper with success in this step.
IndexPaperSucceeds(t) == pc[t] = "ip_emit" /\ pc'[t] # "ip_emit"

\* C3 (as stated): when index_paper succeeds for a paper, a search for any
\* whitespace-separated word of the extracted text, in any letter case,
\* returns the paper with page 1, title, author and a highlighted snippet.
C3_AnyWordFound ==
  [][\A t \in Threads : IndexPaperSucceeds(t) =>
       \A w \in WordsOf(text[t]) : Finds(conn', call[t][1], text[t], w)]_vars

\* C3 (amended): when index_paper succeeds for a paper, a search for any run
\* of letters and digits of the extracted text, or for any of its words made
\* of letters, digits, hyphens and underscores only, in any letter case,
\* returns the paper with page 1, title, author and a highlighted snippet.
C3_PlainWordFound ==
  [][\A t \in Threads : IndexPaperSucceeds(t) =>
       \A w \in RunsOf(text[t]) \cup {x \in WordsOf(text[t]) : PlainWord(x)} :
         Finds(conn', call[t][1], text[t], w)]_vars

\* C3 witness: index_paper has just succeeded for a paper whose page reads
\* TextA, and the searches for "Ab" and for "c-a" find it.
C3_Witness ==
  /\ emitted # None
  /\ \E r \in PagesOf(conn, emitted[1]) : r.text_content = TextA
  /\ Finds(conn, emitted[1], TextA, <<"A", "b">>)
  /\ Finds(conn, emitted[1], TextA, <<"c", "-", "a">>)

\* Thread t returns res from index_paper in this step: to the frontend, or
\* through Ok to the loop of index_all_papers.
Returns(t, res) ==
  IF InBatch(t)
  THEN /\ res.ok
       /\ pc'[t] = "ia_loop"
       /\ results'[t] = Append(results[t], res.value)
  ELSE /\ pc'[t] = "idle"
       /\ ret' = Response([op |-> "index_paper", paper_id |-> call[t][1]], res)

\* The status of a paper that was not indexed, with its message.
NotIndexed(paper_id, msg) == IndexingStatus(paper_id, 0, 0, FALSE, Some(msg))

\* C5: from the start of index_paper to the end of the extraction the store
\* (page rows, index entries, indexed flag and timestamp) does not change
\* and nothing is emitted, and when the extraction fails index_paper
\* returns Ok with is_complete = false, 0 total and indexed pages and the
\* extraction error message.
C5_ExtractionFailureKeepsStore ==
  [][\A t \in Threads :
       /\ pc[t] \in {"ip_query", "ip_extract"} => conn' = conn /\ emitted' = None
       /\ pc[t] = "ip_extract" /\ pc'[t] \notin {"ip_extract", "ip_clear"} =>
            \E msg \in {NotFoundMsg, ParseMsg} :
              Returns(t, Ok(NotIndexed(call[t][1], msg)))]_vars

\* C5 witness: index_paper has just returned the parse error for a paper
\* that is indexed, and the paper still has its page and is still found.
C5_Witness ==
  \E d \in DOMAIN conn.papers :
    /\ ret = Response([op |-> "index_paper", paper_id |-> d], Ok(NotIndexed(d, ParseMsg)))
    /\ emitted = None
    /\ conn.papers[d].is_indexed = 1
    /\ conn.papers[d].indexed_at # None
    /\ \E r \in PagesOf(conn, d) :
         \A w \in RunsOf(r.text_content) : Finds(conn, d, r.text_content, w)

\* Thread t is at the path lookup of index_paper for a paper without PDF.
AtEmptyPath(t) ==
  /\ pc[t] = "ip_query"
  /\ call[t][1] \in DOMAIN conn.papers
  /\ conn.papers[call[t][1]].pdf_path = ""

\* C6: index_paper on a paper whose pdf_path is empty returns Ok with
\* is_complete = false, 0 total and indexed pages and the error "No PDF file
\* attached"; the store does not change and nothing is emitted.
C6_EmptyPathNoEffect ==
  [][\A t \in Threads : AtEmptyPath(t) =>
       /\ conn' = conn
       /\ emitted' = None
       /\ pc'[t] # pc[t] => Returns(t, Ok(NotIndexed(call[t][1], NoPdfMsg)))]_vars

\* C6 witness: index_paper has just returned "No PDF file attached" for a
\* paper that was indexed before its PDF was detached; its page is there.
C6_Witness ==
  \E d \in DOMAIN conn.papers :
    /\ ret = Response([op |-> "index_paper", paper_id |-> d], Ok(NotIndexed(d, NoPdfMsg)))
    /\ emitted = None
    /\ conn.papers[d].is_indexed = 1
    /\ OnlyFirstPage(conn, d)

\* C7 (as stated): when index_all_papers returns after the enumeration, it
\* returns Ok with one status for each enumerated paper, in that order.
C7_BatchReturnsEveryStatus ==
  [][\A t \in Threads : InBatch(t) /\ pc'[t] = "idle" =>
       /\ ret'.cmd = [op |-> "index_all_papers"]
       /\ ret'.res.ok
       /\ Len(ret'.res.value) = Len(batch_papers[t])
       /\ \A k \in 1..Len(batch_papers[t]) :
            ret'.res.value[k].paper_id = batch_papers[t][k]]_vars

\* The threads that hold the guard of the connection.
Holders == {t \in Threads : holds[t]}

\* C8: between the enumeration and the first paper and between two papers
\* index_all_papers does not hold the connection, and if no other thread
\* holds it a command of an idle thread can take it.
C8_BatchReleasesConnection ==
  \A t \in Threads : pc[t] = "ia_loop" =>
    /\ ~holds[t]
    /\ Holders = {} /\ (\E u \in Threads : pc[u] = "idle") => ENABLED SearchFullText

\* C8 witness: a batch is between two of its papers while another thread
\* holds the connection.
C8_Witness ==
  \E t, u \in Threads :
    /\ pc[t] = "ia_loop"
    /\ 0 < Len(results[t])
    /\ Len(results[t]) < Len(batch_papers[t])
    /\ u # t
    /\ holds[u]

\* C9: at most one thread holds the connection; a thread inside index_paper
\* holds it from the path lookup to the return; and while a thread holds it
\* no search, no delete or update and no index_paper of another thread can
\* start.
C9_ConnectionExclusive ==
  /\ Cardinality(Holders) <= 1
  /\ \A t \in Threads :
       pc[t] \in {"ip_query", "ip_extract", "ip_clear", "ip_insert", "ip_mark", "ip_emit"}
         => holds[t]
  /\ Holders # {} =>
       /\ ~ENABLED SearchFullText
       /\ ~ENABLED DeletePaper
       /\ ~ENABLED UpdatePaper
       /\ \A u \in Threads \ Holders :
            /\ ~ENABLED IndexPaper(u)
            /\ ~ENABLED IndexAllPapers(u)
            /\ pc[u] = "ia_loop" /\ Len(results[u]) < Len(batch_papers[u])
                 => ~ENABLED IaLoop(u)

\* C9 witness: an indexed paper is between the clearing of its pages and the
\* insert of the new page while a batch waits for the connection.
C9_Witness ==
  \E t, u \in Threads :
    /\ pc[t] = "ip_insert"
    /\ call[t][1] \in DOMAIN conn.papers
    /\ conn.papers[call[t][1]].is_indexed = 1
    /\ PagesOf(conn, call[t][1]) = {}
    /\ pc[u] = "ia_loop"
    /\ Len(results[u]) < Len(batch_papers[u])

\* The search for q in store c returns a result for paper d.
Returned(c, d, q) ==
  \E k \in DOMAIN search_pdf_content(c, Unscoped(q)).results :
    search_pdf_content(c, Unscoped(q)).results[k].paper_id = d

\* Term q occurs in text txt.
OccursIn(q, txt) == \E k \in 1..Len(Tokenize(txt)) : Tokenize(txt)[k] = LowerCase(q)

\* C10: when index_paper succeeds for a paper, the paper has one page row,
\* with the text just extracted, the index holds the entries of the current
\* page rows and no other, and a search for a term returns the paper if and
\* only if the term occurs in the text just extracted.
C10_ReindexReplaces ==
  [][\A t \in Threads : IndexPaperSucceeds(t) =>
       /\ OnlyFirstPage(conn', call[t][1])
       /\ \A r \in PagesOf(conn', call[t][1]) : r.text_content = text[t]
       /\ conn'.pdf_pages_fts = {FtsEntry(r) : r \in conn'.pdf_pages}
       /\ \A q \in Terms : Returned(conn', call[t][1], q) <=> OccursIn(q, text[t])]_vars

\* C10 witness: a paper that was already marked indexed has been indexed
\* again with TextB; "c", a term of TextA only, does not return it, and "b",
\* a term of TextB, does.
C10_Witness ==
  \E t \in Threads :
    /\ pc[t] = "ip_mark"
    /\ call[t][1] \in DOMAIN conn.papers
    /\ conn.papers[call[t][1]].is_indexed = 1
    /\ text[t] = TextB
    /\ \A r \in PagesOf(conn, call[t][1]) : r.text_content = TextB
    /\ ~Returned(conn, call[t][1], <<"c">>)
    /\ Returned(conn, call[t][1], <<"b">>)

\* The caller's sweep is over: what it got adds up to the one total reported.
SweepExact == sweep.totals = {sweep.returned}

\* C4 (as stated): for every query, scope and positive limit L, the results
\* over the offsets 0, L, 2L, ... add up to the reported total, and every
\* page of the sweep reports the same total.
C4_SweepAddsUp ==
  /\ Cardinality(sweep.totals) <= 1
  /\ sweep.done => SweepExact

\* C4 (amended): the same for a limit L from 1 to the cap of 100.
C4_SweepAddsUpWithinCap ==
  /\ Cardinality(sweep.totals) <= 1
  /\ sweep.done /\ sweep.limit <= MaxLimit => SweepExact

\* C4 witness: a folder-scoped sweep of more than one page is over and the
\* results add up to the total.
C4_Witness ==
  /\ sweep.done
  /\ sweep.folder_id # None
  /\ sweep.offset > sweep.limit
  /\ sweep.returned > sweep.limit
  /\ SweepExact

\* The status index_paper returns for a paper it has indexed.
Indexed(paper_id) == IndexingStatus(paper_id, 1, 1, TRUE, None)

\* Paper d is stored as indexed in c, with a timestamp.
FlagStored(c, d) ==
  /\ d \in DOMAIN c.papers
  /\ c.papers[d].is_indexed = 1
  /\ c.papers[d].indexed_at # None

\* C11: after a successful extraction index_paper clears the paper's pages,
\* then inserts page 1 with the extracted text, then marks the paper indexed
\* with a timestamp, then emits one "paper-indexed" carrying the paper id
\* and returns total_pages = indexed_pages = 1, is_complete = true and no
\* error; each of these steps is reached from the one before it only, and
\* nothing is emitted in any other step or before the flag is stored.
C11_SuccessPathInOrder ==
  [][/\ \A t \in Threads :
          LET d == call[t][1] IN
          /\ pc'[t] = "ip_clear" => pc[t] \in {"ip_extract", "ip_clear"}
          /\ pc'[t] = "ip_insert" => pc[t] \in {"ip_clear", "ip_insert"}
          /\ pc'[t] = "ip_mark" => pc[t] \in {"ip_insert", "ip_mark"}
          /\ pc'[t] = "ip_emit" => pc[t] \in {"ip_mark", "ip_emit"}
          /\ pc[t] = "ip_extract" /\ pc'[t] = "ip_clear" => text'[t] \in Texts
          /\ pc[t] = "ip_clear" /\ pc'[t] = "ip_insert" =>
               /\ conn' = delete_pdf_pages(conn, d)
               /\ PagesOf(conn', d) = {}
          /\ pc[t] = "ip_insert" /\ pc'[t] = "ip_mark" =>
               /\ conn' = insert_pdf_page(conn, d, FirstPage, text[t])
               /\ OnlyFirstPage(conn', d)
               /\ \A r \in PagesOf(conn', d) : r.text_content = text[t]
          /\ pc[t] = "ip_mark" /\ pc'[t] = "ip_emit" =>
               /\ \E now \in Times : conn' = mark_paper_indexed(conn, d, now)
               /\ FlagStored(conn', d)
          /\ pc[t] = "ip_emit" /\ pc'[t] # "ip_emit" =>
               /\ FlagStored(conn, d)
               /\ conn' = conn
               /\ emitted' = Some(d)
               /\ Returns(t, Ok(Indexed(d)))
     /\ emitted' # None =>
          \E t \in Threads : IndexPaperSucceeds(t) /\ emitted' = Some(call[t][1])
     /\ ret'.cmd.op = "index_paper" /\ ret'.res.ok /\ ret'.res.value.is_complete =>
          emitted' = Some(ret'.cmd.paper_id)]_vars

\* C11 witness: index_paper has just returned the status of an indexed
\* paper; the notification carries the paper's id and the flag, timestamp
\* and page 1 are in the store.
C11_Witness ==
  \E d \in DOMAIN conn.papers :
    /\ ret = Response([op |-> "index_paper", paper_id |-> d], Ok(Indexed(d)))
    /\ emitted = Some(d)
    /\ FlagStored(conn, d)
    /\ OnlyFirstPage(conn, d)

\* The papers that leave the store in this step.
Gone == (DOMAIN conn.papers) \ (DOMAIN conn'.papers)

\* The page rows of c, without those of the papers in ids, that lie in scope
\* f and match query q.
MatchingPages(c, ids, f, q) ==
  {r \in c.pdf_pages :
     /\ r.paper_id \notin ids
     /\ f # None => c.papers[r.paper_id].folder_id = f[1]
     /\ Matches(r.text_content, Fts5Phrases(sanitize_fts_query(q)))}

\* The response to the search for q in scope f has nothing of the papers in
\* ids and reports n as the total.
WithoutPapers(response, ids, n) ==
  /\ \A k \in DOMAIN response.results : response.results[k].paper_id \notin ids
  /\ response.total = n

\* C12: in the step in which a paper leaves the store (delete_paper,
\* batch_delete_papers, delete_folder, delete_topic) all of its page rows
\* and their index entries leave with it; in the state after it every page
\* row belongs to a stored paper, and no search, scoped or not, returns the
\* paper, and the total reported is the number of matching pages of the
\* papers that are left.
C12_DeleteRemovesPages ==
  [][/\ \A d \in Gone :
          /\ PagesOf(conn', d) = {}
          /\ \A r \in PagesOf(conn, d), e \in conn'.pdf_pages_fts : e.rowid # r.rowid
     /\ Gone # {} =>
          /\ \A r \in conn'.pdf_pages : r.paper_id \in DOMAIN conn'.papers
          /\ \A q \in Terms, f \in Scopes :
               WithoutPapers(search_pdf_content(conn', Scoped(q, f)),
                             Gone, Cardinality(MatchingPages(conn, Gone, f, q)))]_vars

\* C12 witness: paper 1 of a library of two indexed papers was deleted and
\* the caller then searched for "a" in the folder of paper 2 (both pages
\* read "a"): the response holds one page, that of paper 2, and the total
\* is one.
C12_Witness ==
  /\ DOMAIN conn.papers = {2}
  /\ PagesOf(conn, 2) # {}
  /\ ret.cmd = [op |-> "search_full_text",
                query |-> Scoped(<<"a">>, Some(conn.papers[2].folder_id))]
  /\ WithoutPapers(ret.res.value, {1}, 1)
  /\ Len(ret.res.value.results) = 1

\* The caller of the one search has its response.
Answered == sweep.done /\ ret.cmd.op = "search_full_text"

\* The response without any result.
NoResults == [total |-> 0, results |-> <<>>]

\* A query string without a letter or digit that holds a punctuation or
\* symbol character.
SymbolsOnly(q) ==
  /\ \A i \in 1..Len(q) : ~is_alphanumeric(q[i])
  /\ \E i \in 1..Len(q) : ~is_whitespace(q[i])

\* The query string holds a hyphen or an underscore.
HasHyphen(q) == \E i \in 1..Len(q) : q[i] \in {"-", "_"}

\* C13 (as stated): a query made only of punctuation or symbol characters,
\* hyphens and underscores among them, sanitises to no token, and the
\* search returns total 0 and no result, not an error, without querying
\* the index.
C13_SymbolsNeverQueryIndex ==
  Answered /\ SymbolsOnly(ret.cmd.query.query) =>
    /\ sanitize_fts_query(ret.cmd.query.query) = <<>>
    /\ ~QueriesIndex(ret.cmd.query)
    /\ ret.res = Ok(NoResults)

\* C13 (amended): a query made only of punctuation or symbol characters
\* returns total 0 and no result, not an error; if none of them is a hyphen
\* or underscore it sanitises to no token and the index is not queried; if
\* one is, the sanitised query holds a quoted token and the index is
\* queried.
C13_SymbolsReturnNothing ==
  Answered /\ SymbolsOnly(ret.cmd.query.query) =>
    /\ ret.res = Ok(NoResults)
    /\ ~HasHyphen(ret.cmd.query.query) =>
         /\ sanitize_fts_query(ret.cmd.query.query) = <<>>
         /\ ~QueriesIndex(ret.cmd.query)
    /\ HasHyphen(ret.cmd.query.query) => QueriesIndex(ret.cmd.query)

\* C13 witness: the library holds indexed papers and the search for "( '"
\* has returned nothing without a query to the index.
C13_Witness ==
  /\ Answered
  /\ conn.pdf_pages # {}
  /\ ret.cmd.query.query = <<"(", " ", "'">>
  /\ ~QueriesIndex(ret.cmd.query)
  /\ ret.res = Ok(NoResults)

\* C14 (as stated): a response never holds more than 100 results, whatever
\* limit the caller passes (zero and negative limits among them); without a
\* limit the response is that of limit 20, and without an offset that of
\* offset 0.
C14_AtMostCap ==
  Answered =>
    /\ Len(ret.res.value.results) <= MaxLimit
    /\ ret.cmd.query.limit = None =>
         ret.res.value = search_pdf_content(conn, [ret.cmd.query EXCEPT !.limit = Some(DefaultLimit)])
    /\ ret.cmd.query.offset = None =>
         ret.res.value = search_pdf_content(conn, [ret.cmd.query EXCEPT !.offset = Some(DefaultOffset)])

\* C15: the response to a search with a folder scope holds only pages of
\* papers of that folder, each a page that matches, and its total is the
\* number of matching pages of the papers of that folder; the matching
\* pages of papers of other folders are not in it and are not counted. With
\* the default window, all of the folder's matching pages are returned when
\* they fit into it.
C15_ScopeKeepsFolder ==
  Answered /\ ret.cmd.query.folder_id # None =>
    LET f == ret.cmd.query.folder_id
        inside == MatchingPages(conn, {}, f, ret.cmd.query.query)
        res == ret.res.value
    IN /\ \A k \in DOMAIN res.results :
            /\ conn.papers[res.results[k].paper_id].folder_id = f[1]
            /\ \E r \in inside : r.paper_id = res.results[k].paper_id
                                  /\ r.page_number = res.results[k].page_number
       /\ res.total = Cardinality(inside)
       /\ ret.cmd.query.limit = None /\ ret.cmd.query.offset = None
            /\ Cardinality(inside) <= DefaultLimit
            => {res.results[k].paper_id : k \in DOMAIN res.results} = {r.paper_id : r \in inside}

\* C15 witness: of the three papers of the library, all matching "a", one
\* is in the default folder; the search scoped to that folder has returned
\* that paper alone with a total of one.
C15_Witness ==
  /\ Answered
  /\ ret.cmd.query = Scoped(<<"a">>, Some(DefaultFolder))
  /\ Cardinality(MatchingPages(conn, {}, None, <<"a">>)) = 3
  /\ ret.res.value.total = 1
  /\ Len(ret.res.value.results) = 1
  /\ conn.papers[ret.res.value.results[1].paper_id].folder_id = DefaultFolder

\* A letter, digit, hyphen or underscore.
TokenChar(c) == is_alphanumeric(c) \/ c \in {"-", "_"}

\* The surviving tokens of a raw query: its whitespace-separated words
\* without the characters that are not letters, digits, hyphens or
\* underscores, those words left out of which nothing survives.
SurvivingTokens(q) ==
  LET words == split_whitespace(q)
      kept == [k \in 1..Len(words) |-> SelectSeq(words[k], TokenChar)]
  IN SelectSeq(kept, LAMBDA w : w # <<>>)

\* String out is made of quoted tokens of letters, digits, hyphens and
\* underscores with single spaces between them: it starts and ends with a
\* quote, the quotes come in pairs around a token each, and every space
\* stands between a closing and an opening quote.
QuotedTokens(out) ==
  LET quotes == {i \in 1..Len(out) : out[i] = Quote}
      opening(i) == Cardinality({j \in quotes : j < i}) % 2 = 0
  IN /\ \A i \in 1..Len(out) : TokenChar(out[i]) \/ out[i] \in {Quote, " "}
     /\ out # <<>> => out[1] = Quote /\ out[Len(out)] = Quote
     /\ Cardinality(quotes) % 2 = 0
     /\ \A i \in quotes : opening(i) => TokenChar(out[i + 1])
     /\ \A i \in 1..Len(out) :
          /\ TokenChar(out[i]) => out[i - 1] = Quote \/ TokenChar(out[i - 1])
          /\ TokenChar(out[i]) => out[i + 1] = Quote \/ TokenChar(out[i + 1])
          /\ out[i] = " " => /\ out[i - 1] = Quote /\ ~opening(i - 1)
                             /\ out[i + 1] = Quote /\ opening(i + 1)

\* C16: the string search_pdf_content hands to the index is made of the
\* surviving tokens of the raw query, in input order, each in one pair of
\* double quotes, with single spaces between them; every character between
\* the quotes is a letter, digit, hyphen or underscore of the raw query, so
\* no quote, parenthesis, colon, asterisk or other character of the raw
\* query reaches the index.
C16_OnlyQuotedTokens ==
  Answered =>
    LET out == sanitize_fts_query(ret.cmd.query.query)
    IN /\ QuotedTokens(out)
       /\ QuotedFrom(out, 1) = SurvivingTokens(ret.cmd.query.query)
       /\ Cardinality({i \in 1..Len(out) : out[i] = Quote})
            = 2 * Len(SurvivingTokens(ret.cmd.query.query))
       /\ Concat(QuotedFrom(out, 1)) = SelectSeq(ret.cmd.query.query, TokenChar)

\* C16 witness: the raw query "a* with a quote and an asterisk went to the
\* index as the one quoted token "a" and found pages.
C16_Witness ==
  /\ Answered
  /\ ret.cmd.query.query = <<Quote, "a", "*">>
  /\ sanitize_fts_query(ret.cmd.query.query) = <<Quote, "a", Quote>>
  /\ QueriesIndex(ret.cmd.query)
  /\ ret.res.value.total > 0

\* Store c has a page row for paper d and page number n.
HasPage(c, d, n) == \E r \in c.pdf_pages : r.paper_id = d /\ r.page_number = n

\* C17: a thread about to call insert_pdf_page holds the connection and the
\* paper has no page row; it got there from delete_pdf_pages for that paper
\* without giving up the connection; and every page row that enters the
\* store enters through that insert, for a (paper, page number) that had
\* no row, so INSERT OR REPLACE never replaces.
C17_InsertNeverReplaces ==
  [][/\ \A t \in Threads :
          /\ pc[t] = "ip_insert" => holds[t] /\ PagesOf(conn, call[t][1]) = {}
          /\ pc'[t] = "ip_insert" /\ pc[t] # "ip_insert" =>
               /\ pc[t] = "ip_clear"
               /\ holds[t] /\ holds'[t]
               /\ conn' = delete_pdf_pages(conn, call[t][1])
     /\ \A r \in conn'.pdf_pages \ conn.pdf_pages :
          /\ ~HasPage(conn, r.paper_id, r.page_number)
          /\ \E t \in Threads : /\ pc[t] = "ip_insert" /\ pc'[t] = "ip_mark"
                                /\ r.paper_id = call[t][1]
                                /\ r.page_number = FirstPage]_vars

\* C17 witness: a paper that was indexed before is indexed again: its old
\* page is cleared and the thread is about to insert, while the page of the
\* other paper is in the store.
C17_Witness ==
  \E t \in Threads :
    /\ pc[t] = "ip_insert"
    /\ call[t][1] \in DOMAIN conn.papers
    /\ conn.papers[call[t][1]].indexed_at # None
    /\ ~HasPage(conn, call[t][1], FirstPage)
    /\ \E d \in DOMAIN conn.papers : d # call[t][1] /\ HasPage(conn, d, FirstPage)

\* The errors index_paper reports inside a status it returns with Ok.
StatusErrors == {None, Some(NoPdfMsg), Some(NotFoundMsg), Some(ParseMsg)}

\* Thread t's command ends in this step with the storage error: the error
\* is what the frontend gets, the thread is idle without the connection,
\* and the store is as the failed step found it.
FailsWithStorageError(t) ==
  /\ pc'[t] = "idle"
  /\ ~holds'[t]
  /\ ret' = Response(Command(t), Err("Database"))
  /\ conn' = conn
  /\ emitted' = None

\* C18: when delete_pdf_pages, insert_pdf_page or mark_paper_indexed does
\* not succeed, and when the connection cannot be acquired, the command ends
\* at once with the storage error (no further step, no second attempt); a
\* status returned with Ok carries no error or one of the messages of a
\* missing PDF or a failed extraction, never a storage error.
C18_StorageFailureIsError ==
  [][/\ \A t \in Threads :
          /\ pc[t] = "ip_clear" /\ pc'[t] # "ip_insert" /\ pc'[t] # pc[t]
               => FailsWithStorageError(t)
          /\ pc[t] = "ip_insert" /\ pc'[t] # "ip_mark" /\ pc'[t] # pc[t]
               => FailsWithStorageError(t)
          /\ pc[t] = "ip_mark" /\ pc'[t] # "ip_emit" /\ pc'[t] # pc[t]
               => FailsWithStorageError(t)
          /\ pc[t] = "ia_loop" /\ pc'[t] = "idle" /\ Len(results[t]) < Len(batch_papers[t])
               => FailsWithStorageError(t)
          /\ Len(results'[t]) > Len(results[t]) =>
               results'[t][Len(results'[t])].error \in StatusErrors
     /\ ret'.cmd.op = "index_paper" =>
          IF ret'.res.ok THEN ret'.res.value.error \in StatusErrors
          ELSE /\ ret'.res.err \in {"Database", "NotFound: Paper not found"}
               /\ \A t \in Threads : pc'[t] \notin {"ip_query", "ip_extract", "ip_clear",
                                                     "ip_insert", "ip_mark", "ip_emit"}
                                        \/ pc'[t] = pc[t]
               /\ conn' = conn]_vars

\* C18 witness: index_paper has just returned the storage error of
\* mark_paper_indexed: the page is inserted, the paper is not marked, and
\* nothing was emitted.
C18_Witness ==
  \E d \in DOMAIN conn.papers :
    /\ ret = Response([op |-> "index_paper", paper_id |-> d], Err("Database"))
    /\ HasPage(conn, d, FirstPage)
    /\ conn.papers[d].is_indexed = 0
    /\ emitted = None
    /\ \A t \in Threads : pc[t] = "idle"

\* The caller of get_smart_group_papers has got papers.
GroupAnswered ==
  sweep.done /\ ret.cmd.op = "get_smart_group_papers" /\ ret.res.ok

\* The ids of the papers of a result.
IdsOf(papers) == {papers[k].id : k \in 1..Len(papers)}

\* The ids of the papers get_smart_group_papers returns for the one
\* criterion c.
Single(c) == IdsOf(get_smart_group_papers(conn, <<c>>, None, GroupNow))

\* The result holds each paper once, in the order of get_papers.
InTableOrder(papers) ==
  \A i, j \in 1..Len(papers) : i < j =>
    \E a, b \in 1..Len(get_papers(conn)) :
      a < b /\ get_papers(conn)[a] = papers[i] /\ get_papers(conn)[b] = papers[j]

\* C19: for a criteria list that is not empty, in mode "and" (also when no
\* mode is given) the result holds exactly the papers that are in the
\* result of each single criterion, in mode "or" exactly those in the
\* result of at least one of them; the "and" result is a subset of the "or"
\* result; the papers are stored papers, each once.
C19_AndIntersectsOrUnites ==
  GroupAnswered /\ ret.cmd.request.criteria # <<>> =>
    LET criteria == ret.cmd.request.criteria
        mode == ret.cmd.request.match_mode
        all == {id \in DOMAIN conn.papers : \A k \in 1..Len(criteria) : id \in Single(criteria[k])}
        any == {id \in DOMAIN conn.papers : \E k \in 1..Len(criteria) : id \in Single(criteria[k])}
    IN /\ mode \in {None, Some("and")} => IdsOf(ret.res.value) = all
       /\ mode = Some("or") => IdsOf(ret.res.value) = any
       /\ IdsOf(get_smart_group_papers(conn, criteria, Some("and"), GroupNow))
            \subseteq IdsOf(get_smart_group_papers(conn, criteria, Some("or"), GroupNow))
       /\ InTableOrder(ret.res.value)
       /\ \A k \in 1..Len(ret.res.value) : ret.res.value[k] = conn.papers[ret.res.value[k].id]

\* C19 witness: over the four papers, [ByYear(2023), Unread] in mode "or"
\* has returned the papers of 2023 and the unread ones (papers 1, 2, 3 and
\* 4), and in mode "and" it returns paper 1, the unread paper of 2023.
C19_Witness ==
  /\ GroupAnswered
  /\ DOMAIN conn.papers = 1..4
  /\ ret.cmd.request = [criteria |-> <<[type |-> "byYear", year |-> 2023], [type |-> "unread"]>>,
                        match_mode |-> Some("or")]
  /\ Single([type |-> "byYear", year |-> 2023]) = {1, 2}
  /\ Single([type |-> "unread"]) = {1, 3, 4}
  /\ IdsOf(ret.res.value) = {1, 2, 3, 4}
  /\ IdsOf(get_smart_group_papers(conn, ret.cmd.request.criteria, Some("and"), GroupNow)) = {1}

\* C20: with an empty criteria list the result is the list of all stored
\* papers, whatever the mode.
C20_EmptyCriteriaPassAll ==
  GroupAnswered /\ ret.cmd.request.criteria = <<>> =>
    /\ ret.res.value = get_papers(conn)
    /\ IdsOf(ret.res.value) = DOMAIN conn.papers
    /\ Len(ret.res.value) = Cardinality(DOMAIN conn.papers)

\* C20 witness: the empty criteria list in mode "or" has returned the four
\* stored papers.
C20_Witness ==
  /\ GroupAnswered
  /\ ret.cmd.request = [criteria |-> <<>>, match_mode |-> Some("or")]
  /\ Len(ret.res.value) = 4
  /\ IdsOf(ret.res.value) = DOMAIN conn.papers

\* The predefined group with the given id, as built at GroupNow.
Predefined(id) ==
  CHOOSE g \in {get_predefined_smart_groups(GroupNow)[k] :
                  k \in 1..Len(get_predefined_smart_groups(GroupNow))} : g.id = id

\* The caller asked for the papers of group g.
AskedFor(g) ==
  ret.cmd.request = [criteria |-> g.criteria, match_mode |-> Some(g.match_mode)]

\* C21: the papers of the predefined Favorites group are exactly the stored
\* papers of importance 4 or more: evaluating the group's criteria returns
\* what the threshold importance >= 4 selects from the papers, in the same
\* order.
C21_FavoritesIsThreshold ==
  GroupAnswered /\ AskedFor(Predefined("favorites")) =>
    /\ ret.res.value = SelectSeq(get_papers(conn), LAMBDA paper : paper.importance >= 4)
    /\ IdsOf(ret.res.value) = {id \in DOMAIN conn.papers : conn.papers[id].importance >= 4}

\* C21 witness: of the four papers, with importance 4, 3, 5 and 3, the
\* Favorites group has returned papers 1 and 3.
C21_Witness ==
  /\ GroupAnswered
  /\ AskedFor(Predefined("favorites"))
  /\ DOMAIN conn.papers = 1..4
  /\ [id \in 1..4 |-> conn.papers[id].importance] = <<4, 3, 5, 3>>
  /\ IdsOf(ret.res.value) = {1, 3}

\* The command has answered a call with the one criterion c.
AnsweredOne(c) == GroupAnswered /\ ret.cmd.request.criteria = <<c>>

\* s holds sub as a substring when the case of letters is ignored.
SubstringIgnoringCase(s, sub) ==
  \E i \in 0..(Len(s) - Len(sub)) : \A j \in 1..Len(sub) : Lower(s[i + j]) = Lower(sub[j])

\* The fixed rule of a criterion that is neither ByImportance nor a recency
\* window.
FixedRule(paper, c) ==
  CASE c.type = "byYear" -> paper.year = c.year
    [] c.type = "byYearRange" -> paper.year \in c.start..c.end
    [] c.type = "byAuthor" -> SubstringIgnoringCase(paper.author, c.author)
    [] c.type = "byKeyword" -> SubstringIgnoringCase(paper.keywords, c.keyword)
    [] c.type = "byPublisher" -> SubstringIgnoringCase(paper.publisher, c.publisher)
    [] c.type = "bySubject" -> SubstringIgnoringCase(paper.subject, c.subject)
    [] c.type = "byTag" ->
         \E k \in 1..Len(paper.tags) : LowerCase(paper.tags[k]) = LowerCase(c.tag)
    [] c.type = "byReadStatus" -> paper.is_read <=> c.is_read
    [] c.type = "byResearchType" ->
         /\ paper.is_qualitative <=> c.qualitative
         /\ paper.is_quantitative <=> c.quantitative
    [] c.type = "noPdf" -> paper.pdf_path = ""
    [] c.type = "hasPdf" -> ~(paper.pdf_path = "")
    [] c.type = "unread" -> paper.is_read <=> FALSE

\* The criteria FixedRule covers.
FixedCriteria ==
  {c \in GroupCriteria : c.type \notin {"byImportance", "recentlyAdded", "recentlyAnalyzed", "favorites"}}

\* The answer holds exactly the papers with these ids.
AnswerIs(ids) == IdsOf(ret.res.value) = ids

\* The rules of C22 other than the one of ByImportance: each criterion
\* selects the papers of its fixed rule, an inverted year range selects no
\* paper, and NoPdf and HasPdf split the papers.
OtherRulesHold ==
  /\ \A c \in FixedCriteria :
       AnsweredOne(c) =>
         AnswerIs({id \in DOMAIN conn.papers : FixedRule(conn.papers[id], c)})
  /\ \A c \in GroupCriteria :
       AnsweredOne(c) /\ c.type = "byYearRange" /\ c.start > c.end => AnswerIs({})
  /\ GroupAnswered /\ ret.cmd.request.criteria = <<[type |-> "noPdf"], [type |-> "hasPdf"]>> =>
       IF ret.cmd.request.match_mode = Some("or")
       THEN AnswerIs(DOMAIN conn.papers)
       ELSE AnswerIs({})

\* C22 as stated: each criterion is evaluated by its fixed rule, with
\* ByImportance(n) as a threshold, that is, holding for the papers of
\* importance n or more.
C22_ImportanceIsThreshold ==
  /\ OtherRulesHold
  /\ \A c \in GroupCriteria :
       AnsweredOne(c) /\ c.type = "byImportance" =>
         AnswerIs({id \in DOMAIN conn.papers : conn.papers[id].importance >= c.importance})

\* C22: each criterion is evaluated by its fixed rule: ByYear by equality of
\* the year, ByYearRange by start <= year <= end (an inverted range matches
\* nothing), ByAuthor, ByKeyword, ByPublisher and BySubject by
\* case-insensitive substring, ByTag by case-insensitive equality with one
\* of the tags, ByReadStatus and ByResearchType by equality of the flags,
\* NoPdf and HasPdf by emptiness of the PDF path (each paper satisfies
\* exactly one), Unread as ByReadStatus(false), and ByImportance(n) by
\* equality of the importance with n.
C22_EachCriterionByItsRule ==
  /\ OtherRulesHold
  /\ \A c \in GroupCriteria :
       AnsweredOne(c) /\ c.type = "byImportance" =>
         AnswerIs({id \in DOMAIN conn.papers : conn.papers[id].importance = c.importance})

\* C22 witness: ByImportance(4) over the four papers has returned paper 1
\* only, leaving out paper 3 of importance 5.
C22_Witness ==
  /\ AnsweredOne([type |-> "byImportance", importance |-> 4])
  /\ DOMAIN conn.papers = 1..4
  /\ conn.papers[3].importance = 5
  /\ AnswerIs({1})

\* The timestamp a recency criterion looks at: created_at for RecentlyAdded,
\* last_analyzed_at, which may be missing, for RecentlyAnalyzed.
RelevantTimestamp(paper, c) ==
  IF c.type = "recentlyAdded" THEN Some(paper.created_at) ELSE paper.last_analyzed_at

\* The timestamp is present, is written in the fixed format, and less than
\* days + 1 days have passed since its instant: the whole number of days
\* elapsed is at most days.
WithinLastDays(ts, days) ==
  /\ ts # None
  /\ ts[1].fmt = "%Y-%m-%d %H:%M:%S"
  /\ GroupNow - ts[1].secs < (days + 1) * DaySeconds

RecencyCriteria == {c \in GroupCriteria : c.type \in {"recentlyAdded", "recentlyAnalyzed"}}

\* What C22 and C23 say of one paper and one criterion.
StatedRule(paper, c) ==
  IF c \in RecencyCriteria
  THEN WithinLastDays(RelevantTimestamp(paper, c), c.days)
  ELSE FixedRule(paper, c)

\* C23: RecentlyAdded(N) and RecentlyAnalyzed(N) hold for a paper exactly
\* when its timestamp is written in the fixed format and at most N whole
\* days have passed since; for a timestamp in another format, or a missing
\* analysis timestamp, the criterion is false for that paper, the command
\* still answers, and the other papers and the other criteria of the list
\* are evaluated as they are without it.
C23_RecencyWindow ==
  GroupAnswered =>
    LET criteria == ret.cmd.request.criteria
        ks == 1..Len(criteria)
    IN (criteria # <<>> /\ (\E k \in ks : criteria[k] \in RecencyCriteria)
         /\ (\A k \in ks : criteria[k] \in RecencyCriteria \cup FixedCriteria)) =>
        AnswerIs({id \in DOMAIN conn.papers :
                   IF ret.cmd.request.match_mode = Some("or")
                   THEN \E k \in ks : StatedRule(conn.papers[id], criteria[k])
                   ELSE \A k \in ks : StatedRule(conn.papers[id], criteria[k])})

\* C23 witness: RecentlyAnalyzed(7) or ByYear(2023) over the four papers has
\* returned paper 2, analysed two days ago, paper 4, whose analysis
\* timestamp is two days ahead of the clock, and paper 1, never analysed
\* but of year 2023, and has left out paper 3 of year 2020, whose analysis
\* timestamp of a second ago is in another format.
C23_Witness ==
  /\ GroupAnswered
  /\ ret.cmd.request =
       [criteria |-> <<[type |-> "recentlyAnalyzed", days |-> 7], [type |-> "byYear", year |-> 2023]>>,
        match_mode |-> Some("or")]
  /\ DOMAIN conn.papers = 1..4
  /\ conn.papers[1].last_analyzed_at = None
  /\ parse_from_str(conn.papers[3].last_analyzed_at[1]) = None
  /\ AnswerIs({1, 2, 4})

\* get_smart_groups has answered with groups.
GroupsListed == ret.cmd.op = "get_smart_groups" /\ ret.res.ok

\* The row of the smart_groups table with the given id.
StoredRow(id) ==
  conn.smart_groups[CHOOSE k \in 1..Len(conn.smart_groups) : conn.smart_groups[k].id = id]

StoredIds == {conn.smart_groups[k].id : k \in 1..Len(conn.smart_groups)}

\* The stored criteria text is a JSON array of criteria this build knows.
Readable(criteria_json) ==
  /\ criteria_json.syntax = "array"
  /\ \A k \in 1..Len(criteria_json.items) :
       /\ criteria_json.items[k].type \in DOMAIN VariantFields
       /\ DOMAIN criteria_json.items[k].value = VariantFields[criteria_json.items[k].type]

\* The answer returns one group for each stored row and no other.
ListsEveryRow ==
  /\ Len(ret.res.value) = Len(conn.smart_groups)
  /\ IdsOf(ret.res.value) = StoredIds

\* C24: get_smart_groups returns every stored group, one for each row, also
\* when the criteria text of some row cannot be parsed: the group of such a
\* row has an empty criteria list, and the group of a row with a parsable
\* text has the criteria the text was written from; failing is left to the
\* storage errors.
C24_UnreadableCriteriaAreEmpty ==
  /\ GroupsListed =>
       /\ ListsEveryRow
       /\ \A k \in 1..Len(ret.res.value) :
            LET group == ret.res.value[k]
                row == StoredRow(group.id)
            IN /\ ~Readable(row.criteria) => group.criteria = <<>>
               /\ Readable(row.criteria) => to_string(group.criteria) = row.criteria
               /\ <<group.name, group.match_mode, group.icon, group.color, group.created_at>>
                    = <<row.name, row.match_mode, row.icon, row.color, row.created_at>>
  /\ ret.cmd.op = "get_smart_groups" /\ ~ret.res.ok => ret.res.err = "Database"

\* C24 witness: of two stored rows the first written holds a list with a
\* variant that cannot be read and the second a list with Unread, and
\* get_smart_groups has returned both groups, the one with no criteria and
\* the other with [Unread].
C24_Witness ==
  /\ GroupsListed
  /\ Len(conn.smart_groups) = 2
  /\ ~Readable(conn.smart_groups[1].criteria)
  /\ conn.smart_groups[1].criteria.syntax = "array"
  /\ Len(ret.res.value) = 2
  /\ ret.res.value[2].id = conn.smart_groups[1].id
  /\ ret.res.value[2].criteria = <<>>
  /\ ret.res.value[1].criteria = <<[type |-> "unread"]>>

\* The ids of the predefined groups.
PredefinedIds ==
  {"unread", "favorites", "recent-week", "recent-month", "this-year", "no-pdf",
   "qualitative", "quantitative", "mixed-methods"}

\* The group of a list with the given id.
GroupOf(groups, id) == groups[CHOOSE k \in 1..Len(groups) : groups[k].id = id]

\* C25: get_predefined_smart_groups leaves the stored smart groups as they
\* are, get_smart_groups returns groups of stored rows only, none of them
\* with the id of a predefined group, and each call of
\* get_predefined_smart_groups builds the nine groups from the clock of that
\* call: "this-year" is ByYear of the year of the call and the groups are
\* dated with the time of the call.
C25_PredefinedNeverStored ==
  [][ /\ ret'.cmd.op = "get_predefined_smart_groups" =>
          /\ conn' = conn
          /\ ret'.res.ok
          /\ Len(ret'.res.value) = Cardinality(PredefinedIds)
          /\ IdsOf(ret'.res.value) = PredefinedIds
          /\ \E y \in 0..MaxYears :
               /\ clock = GroupNow + y * YearDays * DaySeconds
               /\ GroupOf(ret'.res.value, "this-year").criteria =
                    <<[type |-> "byYear", year |-> 2023 + y]>>
          /\ \A k \in 1..Len(ret'.res.value) :
               ret'.res.value[k].created_at = Timestamp(DateFormat, clock)
      /\ ret'.cmd.op = "get_smart_groups" /\ ret'.res.ok =>
          /\ IdsOf(ret'.res.value) = {conn.smart_groups[k].id : k \in 1..Len(conn.smart_groups)}
          /\ IdsOf(ret'.res.value) \cap PredefinedIds = {}
    ]_vars

\* C25 witness: in the second year, with a group stored,
\* get_predefined_smart_groups has returned a "this-year" group of
\* ByYear(2024).
C25_Witness ==
  /\ ret.cmd.op = "get_predefined_smart_groups"
  /\ clock = GroupNow + YearDays * DaySeconds
  /\ GroupOf(ret.res.value, "this-year").criteria = <<[type |-> "byYear", year |-> 2024]>>
  /\ Len(conn.smart_groups) > 0

\* C26: index_paper called with an id of no stored paper changes nothing
\* from the call on, and at the lookup of the PDF path it ends with the
\* NotFound error: the store (page rows, index entries, flags) is the same
\* after the step, nothing is emitted, and the command returns the error at
\* once, giving the connection back.
C26_UnknownIdChangesNothing ==
  [][\A t \in Threads :
       /\ pc'[t] = "ip_query" /\ pc[t] # "ip_query" /\ call'[t][1] \notin DOMAIN conn.papers =>
            conn' = conn /\ emitted' = None
       /\ pc[t] = "ip_query" /\ pc'[t] # "ip_query" /\ call[t][1] \notin DOMAIN conn.papers =>
            /\ ret'.res = Err("NotFound: Paper not found")
            /\ ret'.cmd = IF InBatch(t) THEN [op |-> "index_all_papers"]
                          ELSE [op |-> "index_paper", paper_id |-> call[t][1]]
            /\ pc'[t] = "idle" /\ ~holds'[t]
            /\ conn' = conn
            /\ emitted' = None]_vars

\* C26 witness: index_paper has returned NotFound for the id of a deleted
\* paper, while another paper keeps its page row and its flag.
C26_Witness ==
  \E d \in 1..(next_paper - 1) :
    /\ d \notin DOMAIN conn.papers
    /\ ret = Response([op |-> "index_paper", paper_id |-> d], Err("NotFound: Paper not found"))
    /\ emitted = None
    /\ \E e \in DOMAIN conn.papers : conn.papers[e].is_indexed = 1 /\ OnlyFirstPage(conn, e)

\* The papers with the indexed flag not set and a PDF path.
Unindexed(c) ==
  {id \in DOMAIN c.papers : c.papers[id].is_indexed # 1 /\ ~(c.papers[id].pdf_path = "")}

\* index_all_papers has returned statuses, each of them complete.
BatchAllComplete(response) ==
  /\ response.cmd.op = "index_all_papers"
  /\ response.res.ok
  /\ \A k \in 1..Len(response.res.value) : response.res.value[k].is_complete

\* C27: index_all_papers enumerates exactly the papers whose indexed flag is
\* not set and whose PDF path is not empty, each once. With the commands
\* called one after the other: when it returns with every paper indexed, no
\* paper is un-indexed, and an index_all_papers called right after it
\* enumerates nothing and returns an empty list; a paper whose extraction
\* failed is still un-indexed when the command returns, so that the next
\* index_all_papers enumerates it again.
C27_BatchDrainsUnindexed ==
  [][\A t \in Threads :
       /\ pc[t] = "idle" /\ pc'[t] = "ia_loop" =>
            /\ {batch_papers'[t][k] : k \in 1..Len(batch_papers'[t])} = Unindexed(conn)
            /\ Len(batch_papers'[t]) = Cardinality(Unindexed(conn))
            /\ BatchAllComplete(ret) => batch_papers'[t] = <<>>
       /\ pc[t] = "ia_loop" /\ batch_papers[t] = <<>> /\ pc'[t] # pc[t] =>
            ret' = Response([op |-> "index_all_papers"], Ok(<<>>))
       /\ InBatch(t) /\ pc'[t] = "idle" =>
            /\ BatchAllComplete(ret') => Unindexed(conn') = {}
            /\ ret'.res.ok =>
                 \A k \in 1..Len(ret'.res.value) :
                   ~ret'.res.value[k].is_complete =>
                     /\ ret'.res.value[k].error \in {Some(NotFoundMsg), Some(ParseMsg)}
                     /\ ret'.res.value[k].paper_id \in Unindexed(conn')]_vars

\* C27 witness: index_all_papers has returned two statuses, the first
\* complete and the second with a failed extraction; the first paper is
\* indexed and the second is the one paper still un-indexed.
C27_Witness ==
  /\ ret.cmd.op = "index_all_papers"
  /\ ret.res.ok
  /\ Len(ret.res.value) = 2
  /\ ret.res.value[1].is_complete
  /\ ~ret.res.value[2].is_complete
  /\ Unindexed(conn) = {ret.res.value[2].paper_id}
  /\ conn.papers[ret.res.value[1].paper_id].is_indexed = 1

\* insert_pdf_page has been executed for a pair that had a page row.
Replaced ==
  sweep.done /\ sweep.ok /\ sweep.request.page_number = FirstPage

\* The page rows of the pair of the call.
RowsOfPair ==
  {r \in conn.pdf_pages :
     r.paper_id = sweep.request.paper_id /\ r.page_number = sweep.request.page_number}

\* C28: after insert_pdf_page for a (paper, page number) that had a page
\* row, the pair has exactly one page row, with the new text, the index
\* holds the entries of the current page rows and no other, and a search
\* for a term counts and returns exactly the pages whose current text has
\* the term.
C28_ReplaceLeavesOneEntry ==
  Replaced =>
    /\ Cardinality(RowsOfPair) = 1
    /\ \A r \in RowsOfPair : r.text_content = sweep.request.text_content
    /\ conn.pdf_pages_fts = {FtsEntry(r) : r \in conn.pdf_pages}
    /\ ret.cmd.op = "search_full_text" /\ ret.cmd.query.folder_id = None =>
         /\ ret.res.value.total =
              Cardinality(MatchingPages(conn, {}, None, ret.cmd.query.query))
         /\ Len(ret.res.value.results) = ret.res.value.total

\* The papers stored before and after the step.
Kept == DOMAIN conn.papers \cap DOMAIN conn'.papers

\* C29: get_paper_index_status answers true for a stored paper whose
\* indexed flag is set and false for any other id, without an error for an
\* id of no paper. A paper is created with the flag not set; the flag is
\* set only by the mark step of an index_paper on that paper, which then
\* returns with success, and whenever index_paper returns with success the
\* flag is set; while the paper is stored no step resets the flag, an
\* update of its PDF path included.
C29_StatusIsTheFlag ==
  [][/\ ret'.cmd.op = "get_paper_index_status" =>
          /\ conn' = conn
          /\ IF ret'.res.ok
             THEN ret'.res.value <=>
                    /\ ret'.cmd.paper_id \in DOMAIN conn.papers
                    /\ conn.papers[ret'.cmd.paper_id].is_indexed = 1
             ELSE ret'.res.err = "Database"
     /\ \A d \in DOMAIN conn'.papers \ DOMAIN conn.papers : conn'.papers[d].is_indexed = 0
     /\ \A d \in Kept :
          /\ conn.papers[d].is_indexed = 1 => conn'.papers[d].is_indexed = 1
          /\ conn.papers[d].is_indexed = 0 /\ conn'.papers[d].is_indexed = 1 =>
               \E t \in Threads :
                 pc[t] = "ip_mark" /\ call[t] = Some(d) /\ pc'[t] = "ip_emit"
     /\ \A t \in Threads :
          /\ pc[t] = "ip_emit" /\ pc'[t] # "ip_emit" => Returns(t, Ok(Indexed(call[t][1])))
          /\ pc'[t] # pc[t] /\ call[t] # None /\ Returns(t, Ok(Indexed(call[t][1]))) =>
               /\ pc[t] = "ip_emit"
               /\ call[t][1] \in DOMAIN conn'.papers
               /\ conn'.papers[call[t][1]].is_indexed = 1]_vars

\* C29 witness: get_paper_index_status has answered true for a paper that
\* was indexed and whose PDF path was emptied by an update afterwards.
C29_Witness ==
  \E d \in DOMAIN conn.papers :
    /\ ret = Response([op |-> "get_paper_index_status", paper_id |-> d], Ok(TRUE))
    /\ conn.papers[d].pdf_path = ""
    /\ conn.papers[d].is_indexed = 1

\* C30: whenever no index_paper is under way, a paper whose indexed flag is
\* set has a page row and a paper with a page row has the flag set, also
\* after delete_pdf_pages, insert_pdf_page or mark_paper_indexed has failed
\* inside index_paper.
C30_FlagAndPageTogether ==
  (\A t \in Threads : ~holds[t]) =>
    \A d \in DOMAIN conn.papers :
      /\ conn.papers[d].is_indexed = 1 => PagesOf(conn, d) # {}
      /\ PagesOf(conn, d) # {} => conn.papers[d].is_indexed = 1

====
